---- MODULE Spec2Model ----
(***************************************************************************)
(* Model of the embedding similarity search subsystem of KimLy-AI/fulfill: *)
(*   - CLIPSimilaritySearcher (src/src/models/clip_model.py)               *)
(*   - EmbeddingUploader      (src/src/data_uploading/                     *)
(*                             upload_data_to_vectorDB.py)                 *)
(*   - create_embeddings      (src/src/data_uploading/create_embedding.py, *)
(*                             src/src/utils/image_utils.py)               *)
(*   - GoogleDriveScraper     (src/src/data_collection/scraper.py)         *)
(*   - GoogleDriveService     (src/src/data_collection/                    *)
(*                             google_drive_service.py)                    *)
(*                                                                         *)
(* Conventions.                                                            *)
(*   Python None is the empty set and a present value x is {x}.            *)
(*   Python indices are 0-based; the model's are 1-based.                  *)
(*   A vector is a sequence of integers (its unit is irrelevant: the code  *)
(*   normalises).  The float v / ||v|| is kept exactly as the pair         *)
(*   [num |-> v, den2 |-> v.v], meaning v / sqrt(den2); den2 = 0 is the    *)
(*   float NaN that torch returns for 0 / 0.  A similarity score is        *)
(*   [num, den2], meaning num / sqrt(den2), NaN when den2 = 0.             *)
(***************************************************************************)
EXTENDS Integers, Sequences, FiniteSets, TLC

VARIABLES
    embedd_df,          \* CLIPSimilaritySearcher.embedd_df
    dataset_features,   \* CLIPSimilaritySearcher.dataset_features
    last_call,          \* the last method called, its arguments and outcome
    ret,                \* the last value a query method returned
    ever_loaded,        \* history: some load_embeddings call has returned normally
    csv_file,           \* the mini-batch file 2_embedded_data.csv
    pg_table,           \* the permanent table design_embeddings_<VERSION>
    up_call,            \* the last EmbeddingUploader call and its outcome
    scan_type_is_all,   \* EmbeddingUploader.scan_type_is_all
    mini_batch_names,   \* per uploader: the files its mini-batch names denote
    run_pc,             \* per uploader: position in EmbeddingUploader.run
    batch_idx,          \* per uploader: mini-batches taken by the for loop
    conn,               \* per uploader: db_connector.conn
    tmp_table,          \* per uploader: tmp_table of its open transaction
    db_log,             \* per uploader: the statements its cursor has sent
    run_error,          \* per uploader: the exception raised last
    table_before,       \* history: pg_table when upload_embeddings was entered
    run_result,         \* per uploader: what run returned
    committed,          \* history: the uploaders whose upsert committed, in order
    device,             \* create_embedding.device
    n_images,           \* create_embeddings: len(images); image i has path i
    corrupt,            \* the paths that load_and_preprocess_image cannot load
    image_chunks,       \* create_embeddings: image_chunks
    w_pc,               \* per worker_thread call: running, returned or raised
    w_pos,              \* per worker_thread call: images of its chunk taken
    w_batch,            \* per worker_thread call: batch
    w_results,          \* per worker_thread call: results
    batch_failures,     \* how many process_batch calls have failed
    emb_pc,             \* position of create_embeddings
    collected,          \* the futures as_completed has yielded
    merging,            \* the future whose result is being merged
    dict_lock,          \* who holds dict_lock
    image_features_dict, \* create_embeddings: image_features_dict
    output_csv,         \* data/database/<output_file>
    summary,            \* the counts create_embeddings prints at its end
    dl_pc,              \* position of GoogleDriveScraper.download_images
    dl_state,           \* per downloadable image: state of its _download_worker
    dl_collected,       \* the download futures as_completed has yielded
    success_count,      \* download_images: success_count
    batch_size,         \* worker_thread: batch_size
    batch_log,          \* history, per worker_thread call: the batches it gave process_batch
    dw_pc,              \* position of one _download_worker call
    dw_info,            \* _download_worker: image_info
    dw_disk,            \* size of the file at save_path, None when there is none
    dw_disk_before,     \* history: dw_disk when the worker was entered
    dw_attempt,         \* _download_worker: attempt
    dw_trace,           \* history: the outcome of each attempt of this call
    dw_ret,             \* what _download_worker returned
    dw_error,           \* the exception that left _download_worker
    dw_runs,            \* how many times the worker has run on image_info
    df_pc,              \* position of one GoogleDriveService.download_file call
    df_retries,         \* download_file: retries
    df_attempt,         \* download_file: attempt
    df_trace,           \* history: the outcome of each attempt of this call
    df_ret,             \* what download_file returned
    df_error,           \* the exception that left download_file
    sc_pc,              \* position of the top-level scrape_folder_recursively call
    sc_graph,           \* per Drive folder: the folders the API lists in it
    sc_url,             \* folder_url of the top-level call
    sc_stack,           \* the active scrape_folder_recursively calls, innermost last
    sc_visited,         \* visited_urls, shared by all the calls
    sc_collected        \* history: the folder URLs whose images were collected, in order

searcherVars == <<embedd_df, dataset_features, last_call, ret, ever_loaded>>
uploaderVars == <<csv_file, pg_table, up_call, scan_type_is_all>>
runVars == <<mini_batch_names, run_pc, batch_idx, conn, tmp_table, db_log,
             run_error, table_before, run_result, committed>>
embedVars == <<device, n_images, corrupt, batch_size, image_chunks, batch_log,
               w_pc, w_pos, w_batch,
               w_results, batch_failures, emb_pc, collected, merging,
               dict_lock, image_features_dict, output_csv, summary>>
downloadVars == <<dl_pc, dl_state, dl_collected, success_count>>
poolVars == <<embedVars, downloadVars>>
workerVars == <<dw_pc, dw_info, dw_disk, dw_disk_before, dw_attempt, dw_trace,
                dw_ret, dw_error, dw_runs>>
driveVars == <<df_pc, df_retries, df_attempt, df_trace, df_ret, df_error>>
scrapeVars == <<sc_pc, sc_graph, sc_url, sc_stack, sc_visited, sc_collected>>
collectVars == <<workerVars, driveVars, scrapeVars>>
vars == <<embedd_df, dataset_features, last_call, ret, ever_loaded,
          csv_file, pg_table, up_call, scan_type_is_all, runVars, poolVars, collectVars>>

(***************************************************************************)
(* Bounds                                                                  *)
(***************************************************************************)
MaxRows == 2        \* rows of an embedding table
MaxK == 3           \* largest top_k argument
MaxDir == 2         \* images in a directory given to process_directory
MaxVecLen == 3      \* characters of a vector field of a mini-batch file

(***************************************************************************)
(* Option values and small helpers                                         *)
(***************************************************************************)
None == {}
Some(x) == {x}
Val(o) == CHOOSE x \in o : TRUE

Abs(x) == IF x < 0 THEN -x ELSE x
Min(a, b) == IF a < b THEN a ELSE b
Max(a, b) == IF a < b THEN b ELSE a

SeqsUpTo(S, n) == UNION {[1..m -> S] : m \in 0..n}

\* Python s[:k] on a sequence s
SliceTo(s, k) ==
    LET n == IF k >= 0 THEN Min(k, Len(s)) ELSE Max(Len(s) + k, 0)
    IN  [i \in 1..n |-> s[i]]

\* Python s[::-1]
Reversed(s) == [i \in 1..Len(s) |-> s[Len(s) + 1 - i]]

\* Python `a in b` on strings (sequences of characters)
IsSubstring(a, b) ==
    \E i \in 0..(Len(b) - Len(a)) : \A j \in 1..Len(a) : b[i + j] = a[j]

(***************************************************************************)
(* Vector arithmetic                                                       *)
(***************************************************************************)
RECURSIVE DotFrom(_, _, _)
DotFrom(u, v, i) == IF i > Len(u) THEN 0 ELSE u[i] * v[i] + DotFrom(u, v, i + 1)
Dot(u, v) == DotFrom(u, v, 1)

\* x / x.norm(dim=-1, keepdim=True) for one row x
Normalize(v) == [num |-> v, den2 |-> Dot(v, v)]

\* squared L2 norm of a normalised row is Dot(num, num) / den2
IsNaNRow(r) == r.den2 = 0
HasUnitNorm(r) == r.den2 # 0 /\ Dot(r.num, r.num) = r.den2

\* one entry of query_features @ dataset_features.T
Similarity(q, r) == [num |-> Dot(q.num, r.num), den2 |-> q.den2 * r.den2]

IsNaN(s) == s.den2 = 0
\* a < b, a = b on two scores that are not NaN:
\* x/sqrt(A) < y/sqrt(B) iff x|x|B < y|y|A
ScoreLT(a, b) == a.num * Abs(a.num) * b.den2 < b.num * Abs(b.num) * a.den2
ScoreEQ(a, b) == a.num * Abs(a.num) * b.den2 = b.num * Abs(b.num) * a.den2
\* float comparison a >= b (false when either is NaN)
ScoreGE(a, b) == ~IsNaN(a) /\ ~IsNaN(b) /\ ~ScoreLT(a, b)

(***************************************************************************)
(* Inputs: embedding tables, images                                        *)
(***************************************************************************)
\* rows of an embedding table: two unit vectors that tie against the query
\* (1,1), a zero vector, and a vector of another length
TableRows ==
    {[img_path |-> <<"a">>, embedded |-> <<1, 0>>],
     [img_path |-> <<"a", "b">>, embedded |-> <<0, 1>>],
     [img_path |-> <<"b">>, embedded |-> <<0, 0>>],
     [img_path |-> <<"a">>, embedded |-> <<1>>]}
\* a table whose CSV has no img_path column: rows hold `embedded` only
NoPathRows == {[embedded |-> <<1, 0>>]}
Tables ==
    SeqsUpTo(TableRows, MaxRows)
    \cup (SeqsUpTo(NoPathRows, MaxRows) \ {<<>>})

\* the file data/database/<embedding_file>
EmbeddingFiles ==
    {[exists |-> FALSE, parsable |-> TRUE, rows |-> <<>>],
     [exists |-> TRUE, parsable |-> FALSE, rows |-> <<>>]}
    \cup {[exists |-> TRUE, parsable |-> TRUE, rows |-> t] : t \in Tables}

\* a query image: its path's stem, whether PIL can open it, and what the
\* encoder returns for it
QueryStems == {<<"q", "_", "a">>, <<"b">>}
Images ==
    {[stem |-> <<"q", "_", "a">>, decodable |-> TRUE, feat |-> <<1, 0>>],
     [stem |-> <<"b">>, decodable |-> TRUE, feat |-> <<1, 1>>],
     [stem |-> <<"b">>, decodable |-> FALSE, feat |-> <<1, 0>>]}
KValues == 1..MaxK
Directories == SeqsUpTo(Images, MaxDir)

(***************************************************************************)
(* CLIPSimilaritySearcher                                                  *)
(***************************************************************************)
\* torch.tensor(embeddings_list) raises ValueError on lists of unequal length
Ragged(rows) ==
    \E i \in 1..Len(rows) : Len(rows[i].embedded) # Len(rows[1].embedded)

\* dataset_features / dataset_features.norm(dim=-1, keepdim=True)
NormalizeRows(rows) == [i \in 1..Len(rows) |-> Normalize(rows[i].embedded)]

\* the exception load_embeddings raises on `file`, "none" when it returns
LoadError(file) ==
    IF ~file.exists THEN "FileNotFoundError"
    ELSE IF ~file.parsable THEN "ParseError"
    ELSE IF Ragged(file.rows) THEN "ValueError"
    ELSE "none"

\* self.embedd_df after load_embeddings(file): assigned as soon as read_csv
\* returns, before the tensor is built
LoadedDf(file, old_df) ==
    IF LoadError(file) \in {"FileNotFoundError", "ParseError"}
    THEN old_df ELSE Some(file.rows)

\* self.dataset_features after load_embeddings(file)
LoadedFeatures(file, old_features) ==
    IF LoadError(file) = "none"
    THEN Some(NormalizeRows(file.rows)) ELSE old_features

LoadEmbeddings(file) ==
    /\ embedd_df' = LoadedDf(file, embedd_df)
    /\ dataset_features' = LoadedFeatures(file, dataset_features)
    /\ ever_loaded' = (ever_loaded \/ LoadError(file) = "none")
    /\ last_call' = [op |-> "load_embeddings",
                     outcome |-> IF LoadError(file) = "none" THEN "ok" ELSE "raise",
                     error |-> LoadError(file),
                     args |-> [file |-> file],
                     locals |-> <<>>]
    /\ ret' = None
    /\ UNCHANGED <<uploaderVars, runVars, poolVars, collectVars>>

\* encode_image: [ok, error, value]
EncodeImageResult(img) ==
    IF img.decodable
    THEN [ok |-> TRUE, error |-> "none", value |-> Normalize(img.feat)]
    ELSE [ok |-> FALSE, error |-> "AttributeError", value |-> <<>>]

EmptyStoreError == "ValueError: Dataset features not loaded"

\* calculate_similarities without its `is None` guard: None.T raises
\* AttributeError
CalculateSimilaritiesNoGuard(features, q) ==
    IF features = None
    THEN [ok |-> FALSE, error |-> "AttributeError", value |-> <<>>]
    ELSE LET F == Val(features) IN
         IF Len(F) = 0 \/ Len(F[1].num) # Len(q.num)
         THEN [ok |-> FALSE, error |-> "RuntimeError", value |-> <<>>]
         ELSE [ok |-> TRUE, error |-> "none",
               value |-> [i \in 1..Len(F) |-> Similarity(q, F[i])]]

\* calculate_similarities: [ok, error, value]
CalculateSimilaritiesResult(features, q) ==
    IF features = None
    THEN [ok |-> FALSE, error |-> EmptyStoreError, value |-> <<>>]
    ELSE LET F == Val(features) IN
         IF Len(F) = 0 \/ Len(F[1].num) # Len(q.num)
         THEN [ok |-> FALSE, error |-> "RuntimeError", value |-> <<>>]
         ELSE [ok |-> TRUE, error |-> "none",
               value |-> [i \in 1..Len(F) |-> Similarity(q, F[i])]]

\* a sorts before b in numpy's ascending order (NaN last)
SortsBefore(a, b) == ~IsNaN(a) /\ (IsNaN(b) \/ ScoreLT(a, b))

\* the orderings of n array indices
PermsOf(n) == {p \in [1..n -> 1..n] : \A i, j \in 1..n : i # j => p[i] # p[j]}
PermTable == [n \in 0..(MaxRows + 1) |-> PermsOf(n)]
Perms(n) == PermTable[n]

\* np.argsort(similarity_scores): kind='quicksort' is not stable, so any
\* ascending arrangement of equal scores is a possible result
ArgsortOutcomes(scores) ==
    {p \in Perms(Len(scores)) :
        \A i, j \in 1..Len(scores) :
            i < j => ~SortsBefore(scores[p[j]], scores[p[i]])}

\* np.argsort(similarity_scores)[::-1][:k] for one argsort result p
TopIndices(p, k) == SliceTo(Reversed(p), k)

\* get_top_k_similar for one argsort result: [ok, error, value, top_indices]
GetTopKWith(df, scores, k, p) ==
    LET top == TopIndices(p, k) IN
    IF top = <<>>
    THEN [ok |-> TRUE, error |-> "none", value |-> <<>>, top_indices |-> top]
    ELSE IF df = None
    THEN [ok |-> FALSE, error |-> "TypeError", value |-> <<>>, top_indices |-> top]
    ELSE IF top[1] > Len(Val(df))
    THEN [ok |-> FALSE, error |-> "IndexError", value |-> <<>>, top_indices |-> top]
    ELSE IF "img_path" \notin DOMAIN Val(df)[top[1]]
    THEN [ok |-> FALSE, error |-> "KeyError", value |-> <<>>, top_indices |-> top]
    ELSE IF \E i \in 1..Len(top) :
                top[i] > Len(Val(df)) \/ "img_path" \notin DOMAIN Val(df)[top[i]]
    THEN [ok |-> FALSE, error |-> "IndexError", value |-> <<>>, top_indices |-> top]
    ELSE [ok |-> TRUE, error |-> "none",
          value |-> [i \in 1..Len(top) |->
                        [img_path |-> Val(df)[top[i]].img_path,
                         score |-> scores[top[i]]]],
          top_indices |-> top]

GetTopKOutcomes(df, scores, k) ==
    {GetTopKWith(df, scores, k, p) : p \in ArgsortOutcomes(scores)}

\* str.strip() for the blank character
RECURSIVE LStrip(_)
LStrip(s) == IF s # <<>> /\ Head(s) = " " THEN LStrip(Tail(s)) ELSE s
Strip(s) == Reversed(LStrip(Reversed(LStrip(s))))

\* Path(image_path).stem.split('_')[-1].strip()
ExtractImageId(stem) ==
    LET us == {i \in 1..Len(stem) : stem[i] = "_"}
        last == IF us = {} THEN 0 ELSE CHOOSE i \in us : \A j \in us : j <= i
    IN  Strip(SubSeq(stem, last + 1, Len(stem)))

\* analyze_ranking counting the entries from 0
AnalyzeRankingFromZero(stem, top_results) ==
    LET query_id == ExtractImageId(stem)
        hits == {r \in 1..Len(top_results) :
                    IsSubstring(query_id, top_results[r].img_path)}
        first == IF hits = {} THEN 0 ELSE CHOOSE r \in hits : \A h \in hits : r <= h
        rank == first - 1
    IN  IF hits = {}
        THEN [query_path |-> stem, query_id |-> query_id,
              found_in_top_1 |-> FALSE, found_in_top_3 |-> FALSE,
              found_in_top_5 |-> FALSE, found_in_top_10 |-> FALSE,
              rank |-> None, similarity_score |-> None]
        ELSE [query_path |-> stem, query_id |-> query_id,
              found_in_top_1 |-> rank <= 1, found_in_top_3 |-> rank <= 3,
              found_in_top_5 |-> rank <= 5, found_in_top_10 |-> rank <= 10,
              rank |-> Some(rank),
              similarity_score |-> Some(top_results[first].score)]

\* analyze_ranking
AnalyzeRanking(stem, top_results) ==
    LET query_id == ExtractImageId(stem)
        hits == {r \in 1..Len(top_results) :
                    IsSubstring(query_id, top_results[r].img_path)}
        rank == IF hits = {} THEN 0 ELSE CHOOSE r \in hits : \A h \in hits : r <= h
    IN  IF hits = {}
        THEN [query_path |-> stem, query_id |-> query_id,
              found_in_top_1 |-> FALSE, found_in_top_3 |-> FALSE,
              found_in_top_5 |-> FALSE, found_in_top_10 |-> FALSE,
              rank |-> None, similarity_score |-> None]
        ELSE [query_path |-> stem, query_id |-> query_id,
              found_in_top_1 |-> rank <= 1, found_in_top_3 |-> rank <= 3,
              found_in_top_5 |-> rank <= 5, found_in_top_10 |-> rank <= 10,
              rank |-> Some(rank),
              similarity_score |-> Some(top_results[rank].score)]

\* the except branch of process_single_image
ErrorRecord(img, error) == [error |-> error, query_path |-> img.stem]

\* process_single_image returning the analysis without top_results
RankedRecordNoTopResults(img, top_results) ==
    AnalyzeRanking(img.stem, top_results)

\* the try branch of process_single_image once top_results is known
RankedRecord(img, top_results) ==
    LET a == AnalyzeRanking(img.stem, top_results) IN
    [query_path |-> a.query_path, query_id |-> a.query_id,
     found_in_top_1 |-> a.found_in_top_1, found_in_top_3 |-> a.found_in_top_3,
     found_in_top_5 |-> a.found_in_top_5, found_in_top_10 |-> a.found_in_top_10,
     rank |-> a.rank, similarity_score |-> a.similarity_score,
     top_results |-> top_results]

\* process_single_image: the set of [ret, scores, top_indices] it can end with
ProcessSingleImageOutcomes(df, features, img, k) ==
    LET e == EncodeImageResult(img) IN
    IF ~e.ok
    THEN {[ret |-> ErrorRecord(img, e.error), scores |-> None, top_indices |-> None]}
    ELSE LET c == CalculateSimilaritiesResult(features, e.value) IN
         IF ~c.ok
         THEN {[ret |-> ErrorRecord(img, c.error), scores |-> None,
                top_indices |-> None]}
         ELSE {[ret |-> IF t.ok THEN RankedRecord(img, t.value)
                        ELSE ErrorRecord(img, t.error),
                scores |-> Some(c.value),
                top_indices |-> Some(t.top_indices)] :
                    t \in GetTopKOutcomes(df, c.value, k)}

Call(op, outcome, error, args, locals) ==
    [op |-> op, outcome |-> outcome, error |-> error, args |-> args,
     locals |-> locals]

\* a result [ok, error, value] as the outcome of a call
Returned(op, r, args, locals) ==
    Call(op, IF r.ok THEN "ok" ELSE "raise", r.error, args, locals)

EncodeImage(img) ==
    LET r == EncodeImageResult(img) IN
    /\ last_call' = Returned("encode_image", r, [image |-> img], <<>>)
    /\ ret' = IF r.ok THEN Some([kind |-> "features", value |-> r.value]) ELSE None
    /\ UNCHANGED <<embedd_df, dataset_features, ever_loaded, uploaderVars, runVars, poolVars, collectVars>>

\* the caller passes the features encode_image returned
CalculateSimilarities ==
    /\ ret # None /\ Val(ret).kind = "features"
    /\ LET q == Val(ret).value
           r == CalculateSimilaritiesResult(dataset_features, q)
       IN  /\ last_call' = Returned("calculate_similarities", r,
                                    [query_features |-> q], <<>>)
           /\ ret' = IF r.ok THEN Some([kind |-> "scores", value |-> r.value])
                     ELSE None
    /\ UNCHANGED <<embedd_df, dataset_features, ever_loaded, uploaderVars, runVars, poolVars, collectVars>>

\* get_top_k_similar reordering the identifier table in place
GetTopKSimilarSorting(k) ==
    /\ ret # None /\ Val(ret).kind = "scores"
    /\ \E r \in GetTopKOutcomes(embedd_df, Val(ret).value, k) :
           /\ last_call' = Returned("get_top_k_similar", r,
                                    [similarity_scores |-> Val(ret).value, k |-> k],
                                    [top_indices |-> r.top_indices])
           /\ ret' = IF r.ok THEN Some([kind |-> "top_results", value |-> r.value])
                     ELSE None
    /\ embedd_df' = IF embedd_df = None THEN None
                    ELSE Some(Reversed(Val(embedd_df)))
    /\ UNCHANGED <<dataset_features, ever_loaded, uploaderVars, runVars, poolVars, collectVars>>

\* the caller passes the scores calculate_similarities returned
GetTopKSimilar(k) ==
    /\ ret # None /\ Val(ret).kind = "scores"
    /\ \E r \in GetTopKOutcomes(embedd_df, Val(ret).value, k) :
           /\ last_call' = Returned("get_top_k_similar", r,
                                    [similarity_scores |-> Val(ret).value, k |-> k],
                                    [top_indices |-> r.top_indices])
           /\ ret' = IF r.ok THEN Some([kind |-> "top_results", value |-> r.value])
                     ELSE None
    /\ UNCHANGED <<embedd_df, dataset_features, ever_loaded, uploaderVars, runVars, poolVars, collectVars>>

\* the caller passes the list get_top_k_similar returned
AnalyzeRankingCall(stem) ==
    /\ ret # None /\ Val(ret).kind = "top_results"
    /\ last_call' = Call("analyze_ranking", "ok", "none",
                         [query_path |-> stem, top_results |-> Val(ret).value], <<>>)
    /\ ret' = Some([kind |-> "analysis",
                    value |-> AnalyzeRanking(stem, Val(ret).value)])
    /\ UNCHANGED <<embedd_df, dataset_features, ever_loaded, uploaderVars, runVars, poolVars, collectVars>>

ProcessSingleImage(img, k) ==
    /\ \E o \in ProcessSingleImageOutcomes(embedd_df, dataset_features, img, k) :
           /\ last_call' = Call("process_single_image", "ok", "none",
                                [image |-> img, k |-> k],
                                [scores |-> o.scores, top_indices |-> o.top_indices])
           /\ ret' = Some([kind |-> "result", value |-> o.ret])
    /\ UNCHANGED <<embedd_df, dataset_features, ever_loaded, uploaderVars, runVars, poolVars, collectVars>>

\* [process_single_image(p, top_k) for p in image_files]: the lists it can be
RECURSIVE DirectoryOutcomes(_, _, _, _)
DirectoryOutcomes(df, features, imgs, k) ==
    IF imgs = <<>> THEN {<<>>}
    ELSE {<<o.ret>> \o rest :
            o \in ProcessSingleImageOutcomes(df, features, Head(imgs), k),
            rest \in DirectoryOutcomes(df, features, Tail(imgs), k)}

\* process_directory on a directory holding the images `imgs`
ProcessDirectory(dir_exists, imgs, k) ==
    /\ IF ~dir_exists
       THEN /\ last_call' = Call("process_directory", "raise", "FileNotFoundError",
                                 [dir_exists |-> dir_exists, images |-> imgs, k |-> k],
                                 <<>>)
            /\ ret' = None
       ELSE \E rs \in DirectoryOutcomes(embedd_df, dataset_features, imgs, k) :
                /\ last_call' = Call("process_directory", "ok", "none",
                                     [dir_exists |-> dir_exists, images |-> imgs,
                                      k |-> k], <<>>)
                /\ ret' = Some([kind |-> "results", value |-> rs])
    /\ UNCHANGED <<embedd_df, dataset_features, ever_loaded, uploaderVars, runVars, poolVars, collectVars>>

(***************************************************************************)
(* Specification of the searcher                                           *)
(***************************************************************************)
\* the EmbeddingUploader processes
Uploaders == {"u1", "u2"}

\* create_embeddings has not been called
EmbedIdle ==
    /\ device = "cpu"
    /\ n_images = 0
    /\ corrupt = {}
    /\ batch_size = 8
    /\ image_chunks = <<>>
    /\ batch_log = <<>>
    /\ w_pc = <<>>
    /\ w_pos = <<>>
    /\ w_batch = <<>>
    /\ w_results = <<>>
    /\ batch_failures = 0
    /\ emb_pc = "idle"
    /\ collected = {}
    /\ merging = 0
    /\ dict_lock = "free"
    /\ image_features_dict = <<>>
    /\ output_csv = None
    /\ summary = None

\* download_images has not been called
DownloadIdle ==
    /\ dl_pc = "idle"
    /\ dl_state = <<>>
    /\ dl_collected = {}
    /\ success_count = 0

PoolIdle == EmbedIdle /\ DownloadIdle

\* _download_worker has not been called
WorkerIdle ==
    /\ dw_pc = "idle"
    /\ dw_info = <<>>
    /\ dw_disk = None
    /\ dw_disk_before = None
    /\ dw_attempt = 0
    /\ dw_trace = <<>>
    /\ dw_ret = None
    /\ dw_error = "none"
    /\ dw_runs = 0

\* download_file has not been called
DriveIdle ==
    /\ df_pc = "idle"
    /\ df_retries = 3
    /\ df_attempt = 0
    /\ df_trace = <<>>
    /\ df_ret = None
    /\ df_error = "none"

\* scrape_folder_recursively has not been called
ScrapeIdle ==
    /\ sc_pc = "idle"
    /\ sc_graph = <<>>
    /\ sc_url = <<>>
    /\ sc_stack = <<>>
    /\ sc_visited = {}
    /\ sc_collected = <<>>

CollectIdle == WorkerIdle /\ DriveIdle /\ ScrapeIdle

\* no uploader has been asked to run
RunIdle ==
    /\ mini_batch_names = [u \in Uploaders |-> <<>>]
    /\ run_pc = [u \in Uploaders |-> "done"]
    /\ batch_idx = [u \in Uploaders |-> 0]
    /\ conn = [u \in Uploaders |-> "none"]
    /\ tmp_table = [u \in Uploaders |-> None]
    /\ db_log = [u \in Uploaders |-> <<>>]
    /\ run_error = [u \in Uploaders |-> "none"]
    /\ table_before = [u \in Uploaders |-> None]
    /\ run_result = [u \in Uploaders |-> None]
    /\ committed = <<>>

UploaderIdle ==
    /\ csv_file = None
    /\ pg_table = None
    /\ up_call = Call("__init__", "ok", "none", <<>>, <<>>)
    /\ scan_type_is_all = FALSE
    /\ RunIdle
    /\ PoolIdle
    /\ CollectIdle

Init ==
    /\ embedd_df = None
    /\ dataset_features = None
    /\ ever_loaded = FALSE
    /\ last_call = Call("__init__", "ok", "none", <<>>, <<>>)
    /\ ret = None
    /\ UploaderIdle

Next ==
    \/ \E file \in EmbeddingFiles : LoadEmbeddings(file)
    \/ \E img \in Images : EncodeImage(img)
    \/ CalculateSimilarities
    \/ \E k \in KValues : GetTopKSimilar(k)
    \/ \E stem \in QueryStems : AnalyzeRankingCall(stem)
    \/ \E img \in Images, k \in KValues : ProcessSingleImage(img, k)
    \/ \E imgs \in Directories, k \in KValues :
           ProcessDirectory(TRUE, imgs, k)
    \/ ProcessDirectory(FALSE, <<>>, 10)

Spec == Init /\ [][Next]_vars

(***************************************************************************)
(* Properties of the searcher                                              *)
(***************************************************************************)
\* float comparisons (false when either operand is NaN)
FloatLT(a, b) == ~IsNaN(a) /\ ~IsNaN(b) /\ ScoreLT(a, b)
FloatEQ(a, b) == ~IsNaN(a) /\ ~IsNaN(b) /\ ScoreEQ(a, b)

IsTopKCall == last_call.op = "get_top_k_similar" /\ last_call.outcome = "ok"
IsQueryCall == last_call.op = "process_single_image"
QueryRet == Val(ret).value
IsRanked(r) == "top_results" \in DOMAIN r
IsErrorRecord(r) == "error" \in DOMAIN r

\* the ranking in `top` (indices into `sc`) never rises, and rows of equal
\* score come in ascending index order
RankedByScoreThenIndex(sc, top) ==
    \A i, j \in 1..Len(top) :
        i < j => /\ ~FloatLT(sc[top[i]], sc[top[j]])
                 /\ FloatEQ(sc[top[i]], sc[top[j]]) => top[i] < top[j]

\* C1: get_top_k_similar returns its results by non-increasing similarity
\* score, and results of equal score in ascending store (insertion) order.
C1_RankedTiesByInsertionOrder ==
    /\ IsTopKCall =>
           RankedByScoreThenIndex(last_call.args.similarity_scores,
                                  last_call.locals.top_indices)
    /\ (IsQueryCall /\ IsRanked(QueryRet)) =>
           RankedByScoreThenIndex(Val(last_call.locals.scores),
                                  Val(last_call.locals.top_indices))

\* Scenario A of the spec: the store [1,0], [0,1], [0.707,0.707] queried with
\* [1,0] and k = 2 ranks row 1 and then row 3.  Vectors are in units of 1/10
\* (0.707 is 7): load_embeddings normalises every row, so only the direction
\* of a raw vector matters
ScenarioARows ==
    <<[img_path |-> <<"a">>, embedded |-> <<10, 0>>],
      [img_path |-> <<"b">>, embedded |-> <<0, 10>>],
      [img_path |-> <<"a", "b">>, embedded |-> <<7, 7>>]>>
ScenarioA ==
    LET c == CalculateSimilaritiesResult(Some(NormalizeRows(ScenarioARows)),
                                         Normalize(<<10, 0>>))
    IN  /\ c.ok
        /\ \A t \in GetTopKOutcomes(Some(ScenarioARows), c.value, 2) :
               t.ok /\ t.top_indices = <<1, 3>>

\* the store is the one built from embedd_df
StoreMatchesTable ==
    /\ embedd_df # None
    /\ Len(Val(dataset_features)) = Len(Val(embedd_df))
    /\ \A i \in 1..Len(Val(embedd_df)) :
           Val(dataset_features)[i] = Normalize(Val(embedd_df)[i].embedded)

\* C2: on a loaded store S a query with k >= 1 returns exactly min(k, |S|)
\* distinct rows, each with a score greater than or equal to the score of every
\* row not returned; Scenario A returns id0 then id2.  (Stated for a non-empty
\* store that matches its table and has the encoder's dimension.)
C2_ReturnsTheKLargest ==
    /\ ScenarioA
    /\ (/\ IsQueryCall
        /\ last_call.args.image.decodable
        /\ dataset_features # None
        /\ Len(Val(dataset_features)) >= 1
        /\ Len(Val(dataset_features)[1].num) = Len(last_call.args.image.feat)
        /\ StoreMatchesTable
        /\ "img_path" \in DOMAIN Val(embedd_df)[1])
       => /\ IsRanked(QueryRet)
          /\ LET top == Val(last_call.locals.top_indices)
                 sc == Val(last_call.locals.scores)
                 n == Len(Val(dataset_features))
             IN  /\ Len(QueryRet.top_results) = Min(last_call.args.k, n)
                 /\ Len(top) = Len(QueryRet.top_results)
                 /\ \A i, j \in 1..Len(top) : i # j => top[i] # top[j]
                 /\ \A i \in 1..Len(top) :
                        \A r \in 1..n :
                            (\A j \in 1..Len(top) : top[j] # r)
                                => ScoreGE(sc[top[i]], sc[r])

\* C3: whenever the searcher holds a vector matrix, the identifier table has
\* the same number of rows and row i of the matrix is the vector of row i.
C3_MatrixMatchesIdentifierTable ==
    dataset_features # None => StoreMatchesTable

\* the last call was load_embeddings of a file that pandas could read
IsLoadOfTable ==
    /\ last_call.op = "load_embeddings"
    /\ last_call.args.file.exists
    /\ last_call.args.file.parsable

\* a ranked result with at least one entry has been returned
ServedRankedResult ==
    \/ IsTopKCall /\ Val(ret).value # <<>>
    \/ IsQueryCall /\ IsRanked(QueryRet) /\ QueryRet.top_results # <<>>

\* C4: loading a table with vectors of unequal length fails with the
\* dimension error, and no query is ever served from that table.
C4_RaggedTableNeverServed ==
    /\ (IsLoadOfTable /\ Ragged(last_call.args.file.rows)) =>
           last_call.outcome = "raise" /\ last_call.error = "ValueError"
    /\ ServedRankedResult => ~Ragged(Val(embedd_df))

HasZeroVector(rows) ==
    \E i \in 1..Len(rows) : Dot(rows[i].embedded, rows[i].embedded) = 0

\* C5: load_embeddings rejects a table that holds a zero-norm vector, and no
\* store ever holds a row obtained by normalising a zero vector.
C5_ZeroVectorRejected ==
    /\ (IsLoadOfTable /\ HasZeroVector(last_call.args.file.rows)) => last_call.outcome = "raise"
    /\ dataset_features # None =>
           \A i \in 1..Len(Val(dataset_features)) :
               ~IsNaNRow(Val(dataset_features)[i])

\* C6: after a successful load_embeddings every row of the matrix has L2
\* norm 1.
C6_RowsHaveUnitNorm ==
    (last_call.op = "load_embeddings" /\ last_call.outcome = "ok") =>
        \A i \in 1..Len(Val(dataset_features)) :
            HasUnitNorm(Val(dataset_features)[i])

\* C7: a query made before any successful load_embeddings fails with the
\* empty-store error, which reaches the caller (raised by
\* calculate_similarities, carried in the error record of
\* process_single_image and process_directory); no ranked result is returned.
C7_QueryBeforeLoadFails ==
    ~ever_loaded =>
        /\ last_call.op = "calculate_similarities" =>
               /\ last_call.outcome = "raise"
               /\ last_call.error = EmptyStoreError
        /\ IsQueryCall =>
               /\ IsErrorRecord(QueryRet)
               /\ ~IsRanked(QueryRet)
               /\ last_call.args.image.decodable =>
                      QueryRet.error = EmptyStoreError
        /\ (last_call.op = "process_directory" /\ last_call.outcome = "ok") =>
               \A i \in 1..Len(QueryRet) :
                   /\ IsErrorRecord(QueryRet[i])
                   /\ last_call.args.images[i].decodable =>
                          QueryRet[i].error = EmptyStoreError
        /\ ret # None => Val(ret).kind \in {"features", "result", "results"}

C7_Witness ==
    /\ ~ever_loaded
    /\ embedd_df # None
    /\ IsQueryCall
    /\ last_call.args.image.decodable
    /\ QueryRet.error = EmptyStoreError

RankedFields ==
    {"query_path", "query_id", "found_in_top_1", "found_in_top_3",
     "found_in_top_5", "found_in_top_10", "rank", "similarity_score",
     "top_results"}
ErrorFields == {"error", "query_path"}

\* a complete ranked result or a structured error record
CompleteResult(r) ==
    \/ DOMAIN r = ErrorFields
    \/ /\ DOMAIN r = RankedFields
       /\ (r.rank = None) = (r.similarity_score = None)
       /\ r.rank = None =>
              ~(r.found_in_top_1 \/ r.found_in_top_3 \/ r.found_in_top_5
                \/ r.found_in_top_10)

\* C8: process_single_image returns either a complete ranked result or an
\* error record holding the error and the query path, never a partial result.
C8_CompleteResultOrErrorRecord ==
    /\ IsQueryCall =>
           /\ last_call.outcome = "ok"
           /\ CompleteResult(QueryRet)
           /\ QueryRet.query_path = last_call.args.image.stem
    /\ (last_call.op = "process_directory" /\ last_call.outcome = "ok") =>
           \A i \in 1..Len(QueryRet) : CompleteResult(QueryRet[i])

\* the top-k step failed inside process_single_image, after encoding and
\* scoring succeeded
C8_Witness ==
    /\ IsQueryCall
    /\ IsErrorRecord(QueryRet)
    /\ QueryRet.error = "KeyError"
    /\ last_call.locals.scores # None

QueryOps ==
    {"encode_image", "calculate_similarities", "get_top_k_similar",
     "analyze_ranking", "process_single_image", "process_directory"}

\* C9: a step of a query operation leaves the identifier table and the
\* vector matrix unchanged.
C9_QueriesLeaveStoreUnchanged ==
    [][last_call'.op \in QueryOps =>
          embedd_df' = embedd_df /\ dataset_features' = dataset_features]_vars

\* every kind of query has run on a loaded store
C9_Witness ==
    /\ dataset_features # None
    /\ Len(Val(dataset_features)) = MaxRows
    /\ last_call.op = "process_directory"
    /\ last_call.outcome = "ok"
    /\ Len(QueryRet) = MaxDir
    /\ \A i \in 1..Len(QueryRet) : IsRanked(QueryRet[i])

(***************************************************************************)
(* EmbeddingUploader: validation                                           *)
(***************************************************************************)
\* a field of the CSV file is a sequence of characters; pandas reads an empty
\* field as the float NaN, which is not a str
IsStr(value) == value # <<>>

DigitChars == {"0", "1", "2", "3", "4", "5", "6", "7", "8", "9"}
SignChars == {"+", "-"}
ExpChars == {"e", "E"}
DotChars == {"."}
BlankChars == {" "}
CommaChars == {","}
IsDigit(c) == c \in DigitChars

\* positions after an optional character of the class Cls at the positions P
AfterOptional(s, P, Cls) ==
    P \cup {p + 1 : p \in {x \in P : x <= Len(s) /\ s[x] \in Cls}}
\* positions after exactly one character of the class Cls
AfterOne(s, P, Cls) ==
    {p + 1 : p \in {x \in P : x <= Len(s) /\ s[x] \in Cls}}
\* positions after Cls* from position p
AfterRun(s, p, Cls) ==
    {j \in p..(Len(s) + 1) : \A i \in p..(j - 1) : s[i] \in Cls}
AfterRuns(s, P, Cls) == UNION {AfterRun(s, p, Cls) : p \in P}
\* positions after Cls+ from the positions P
AfterRuns1(s, P, Cls) == UNION {AfterRun(s, p, Cls) \ {p} : p \in P}

\* the positions where [-+]?[0-9]*\.?[0-9]+(?:[eE][-+]?[0-9]+)? can end when
\* it starts at position i
NumberEnds(s, i) ==
    LET sign == AfterOptional(s, {i}, SignChars)
        int == AfterRuns(s, sign, DigitChars)
        dot == AfterOptional(s, int, DotChars)
        mant == AfterRuns1(s, dot, DigitChars)
        exp == AfterOne(s, mant, ExpChars)
        esign == AfterOptional(s, exp, SignChars)
        expo == AfterRuns1(s, esign, DigitChars)
    IN  mant \cup expo

\* the positions where (NUMBER,\s*)* can end: the starts of the last number
RECURSIVE ItemStarts(_, _, _)
ItemStarts(s, frontier, seen) ==
    IF frontier \subseteq seen THEN seen
    ELSE LET ends == UNION {NumberEnds(s, p) : p \in frontier \ seen}
             commas == AfterOne(s, ends, CommaChars)
         IN  ItemStarts(s, AfterRuns(s, commas, BlankChars), seen \cup frontier)

\* re.match(vector_pattern, s) with the anchors ^\[ and \]$
MatchesVectorPattern(s) ==
    /\ Len(s) >= 1
    /\ s[1] = "["
    /\ \E p \in ItemStarts(s, {2}, {}) :
           \E e \in NumberEnds(s, p) : e = Len(s) /\ s[e] = "]"

\* the pattern without its closing \]$
MatchesVectorPrefix(s) ==
    /\ Len(s) >= 1
    /\ s[1] = "["
    /\ \E p \in ItemStarts(s, {2}, {}) : NumberEnds(s, p) # {}

\* validate_vector with a pattern that is not anchored at the end
ValidateVectorUnanchored(value) ==
    IsStr(value) /\ MatchesVectorPrefix(Strip(value))

\* validate_vector
ValidateVector(value) ==
    IsStr(value) /\ MatchesVectorPattern(Strip(value))

\* db_schema.get_column_names()
TableColumns ==
    {"file_id", "filename", "file_extension", "folder_name", "folder_url",
     "direct_url", "download_url", "file_size", "embedded_design_images",
     "modified_date", "collection_timestamp"}

\* validate_csv_columns
ValidateCsvColumns(file) == file.header = TableColumns

\* validate_csv_data: the vector column holds valid vectors only; a filename
\* column that pandas did not read as text makes .str raise, which the method
\* turns into False
ValidateCsvData(file) ==
    /\ "embedded_design_images" \in file.header
    /\ \A i \in 1..Len(file.rows) :
           ValidateVector(file.rows[i].embedded_design_images)
    /\ "filename" \in file.header => file.filename_dtype = "object"

(***************************************************************************)
(* EmbeddingUploader: database                                             *)
(***************************************************************************)
\* unique_key of upload_embeddings
unique_key == "id"

\* the statements upload_embeddings sends and how the call ends, on the
\* mini-batch file `file` (None: no such file), the permanent table `table`
\* (None: no such table) and a server that accepts or rejects the COPY
UploadEmbeddingsResult(file, table, copy_ok) ==
    IF file = None
    THEN [outcome |-> "skipped", error |-> "none", stmts |-> <<>>, table |-> table]
    ELSE IF ~ValidateCsvColumns(Val(file))
    THEN [outcome |-> "raise", error |-> "ValueError: CSV column validation failed",
          stmts |-> <<>>, table |-> table]
    ELSE IF ~ValidateCsvData(Val(file))
    THEN [outcome |-> "raise", error |-> "ValueError: CSV data validation failed",
          stmts |-> <<>>, table |-> table]
    ELSE IF table = None
    THEN [outcome |-> "raise", error |-> "UndefinedTable",
          stmts |-> <<"CREATE TEMP TABLE", "ROLLBACK">>, table |-> table]
    ELSE IF ~copy_ok
    THEN [outcome |-> "raise", error |-> "DataError",
          stmts |-> <<"CREATE TEMP TABLE", "COPY", "ROLLBACK">>, table |-> table]
    ELSE IF unique_key \notin TableColumns
    THEN [outcome |-> "raise", error |-> "UndefinedColumn",
          stmts |-> <<"CREATE TEMP TABLE", "COPY", "UPSERT", "ROLLBACK">>,
          table |-> table]
    ELSE [outcome |-> "ok", error |-> "none",
          stmts |-> <<"CREATE TEMP TABLE", "COPY", "UPSERT", "COMMIT">>,
          table |-> Some(Val(table) \cup
                         {Val(file).rows[i] : i \in 1..Len(Val(file).rows)})]

UploadEmbeddings(copy_ok) ==
    LET r == UploadEmbeddingsResult(csv_file, pg_table, copy_ok) IN
    /\ pg_table' = r.table
    /\ up_call' = Call("upload_embeddings", r.outcome, r.error,
                       [copy_ok |-> copy_ok],
                       [stmts |-> r.stmts, table_before |-> pg_table])
    /\ UNCHANGED <<csv_file, scan_type_is_all, searcherVars, runVars, poolVars, collectVars>>

\* create_table_if_needed: DROP TABLE IF EXISTS and CREATE TABLE IF NOT EXISTS
\* run on a full rescan only
CreateTableIfNeeded ==
    /\ pg_table' = IF scan_type_is_all THEN Some({}) ELSE pg_table
    /\ up_call' = Call("create_table_if_needed", "ok", "none", <<>>,
                       [stmts |-> IF scan_type_is_all
                                  THEN <<"DROP TABLE", "CREATE TABLE", "COMMIT">>
                                  ELSE <<>>,
                        table_before |-> pg_table])
    /\ UNCHANGED <<csv_file, scan_type_is_all, searcherVars, runVars, poolVars, collectVars>>

(***************************************************************************)
(* Specification of the uploader on one mini-batch file                    *)
(***************************************************************************)
VecChars == {"[", "]", ",", "1", ".", "-", "e", " "}
GoodVec == <<"[", "1", "]">>
VecStrings ==
    SeqsUpTo(VecChars, MaxVecLen)
    \cup {<<"[", "1", ",", "2">>, <<"[", "1", ",", "2", "]">>}

CsvRow(id, v) == [file_id |-> id, embedded_design_images |-> v]
\* a batch of one or two rows, one of them with any vector field
CsvRowLists ==
    {<<>>}
    \cup {<<CsvRow("f1", v)>> : v \in VecStrings}
    \cup {<<CsvRow("f1", GoodVec), CsvRow("f2", v)>> : v \in VecStrings}
    \cup {<<CsvRow("f1", v), CsvRow("f2", GoodVec)>> : v \in VecStrings}
CsvHeaders ==
    {TableColumns, TableColumns \ {"filename"}, TableColumns \cup {"id"}}
CsvFiles ==
    [header : {TableColumns}, filename_dtype : {"object"}, rows : CsvRowLists]
    \cup [header : CsvHeaders, filename_dtype : {"object", "float64"},
          rows : {<<CsvRow("f1", GoodVec)>>,
                  <<CsvRow("f1", GoodVec), CsvRow("f2", <<"[", "1", ",", "2">>)>>}]

SearcherIdle ==
    /\ embedd_df = None
    /\ dataset_features = None
    /\ ever_loaded = FALSE
    /\ last_call = Call("__init__", "ok", "none", <<>>, <<>>)
    /\ ret = None

InitUpload ==
    /\ SearcherIdle
    /\ csv_file \in {None} \cup {Some(f) : f \in CsvFiles}
    /\ pg_table = None
    /\ scan_type_is_all \in BOOLEAN
    /\ up_call = Call("__init__", "ok", "none", <<>>, <<>>)
    /\ RunIdle
    /\ PoolIdle
    /\ CollectIdle

NextUpload ==
    \/ CreateTableIfNeeded
    \/ \E copy_ok \in BOOLEAN : UploadEmbeddings(copy_ok)

SpecUpload == InitUpload /\ [][NextUpload]_vars

\* Python float syntax: a sign, digits with at most one point and at least one
\* digit, and an exponent
IsSign(c) == c \in {"+", "-"}
IsExp(c) == c \in {"e", "E"}
IsDot(c) == c = "."
IsDigits(t) == t # <<>> /\ \A i \in 1..Len(t) : IsDigit(t[i])
IsMantissa(t) ==
    /\ \A i \in 1..Len(t) : IsDigit(t[i]) \/ IsDot(t[i])
    /\ Cardinality({i \in 1..Len(t) : IsDot(t[i])}) <= 1
    /\ \E i \in 1..Len(t) : IsDigit(t[i])
Unsigned(t) == IF t # <<>> /\ IsSign(Head(t)) THEN Tail(t) ELSE t
IsNumberText(t) ==
    LET b == Unsigned(t)
        es == {i \in 1..Len(b) : IsExp(b[i])}
    IN  IF es = {} THEN IsMantissa(b)
        ELSE /\ Cardinality(es) = 1
             /\ LET e == CHOOSE i \in es : TRUE
                IN  /\ IsMantissa(SubSeq(b, 1, e - 1))
                    /\ IsDigits(Unsigned(SubSeq(b, e + 1, Len(b))))

\* a bracketed numeric sequence: [ number , number , ... ]
ParsesAsVector(v) ==
    LET s == Strip(v) IN
    /\ Len(s) >= 2
    /\ s[1] = "["
    /\ s[Len(s)] = "]"
    /\ LET cuts == {1, Len(s)} \cup {i \in 1..Len(s) : s[i] = ","}
       IN  \A a, b \in cuts :
               (a < b /\ \A c \in cuts : ~(a < c /\ c < b))
                   => IsNumberText(Strip(SubSeq(s, a + 1, b - 1)))

HasMalformedVector(file) ==
    \E i \in 1..Len(file.rows) :
        ~ParsesAsVector(file.rows[i].embedded_design_images)

\* C10: a mini-batch file with a row whose vector field is not a bracketed
\* numeric sequence makes upload_embeddings raise a validation error before
\* it sends any statement to the database; the permanent table is unchanged.
C10_MalformedVectorRejectsBatch ==
    (/\ up_call.op = "upload_embeddings"
     /\ csv_file # None
     /\ HasMalformedVector(Val(csv_file)))
    => /\ up_call.outcome = "raise"
       /\ up_call.error \in {"ValueError: CSV column validation failed",
                             "ValueError: CSV data validation failed"}
       /\ up_call.locals.stmts = <<>>
       /\ pg_table = up_call.locals.table_before

\* Scenario B: the batch holds the unterminated vector "[1,2"
C10_Witness ==
    /\ up_call.op = "upload_embeddings"
    /\ csv_file # None
    /\ Val(csv_file).header = TableColumns
    /\ Len(Val(csv_file).rows) = 2
    /\ Val(csv_file).rows[2].embedded_design_images = <<"[", "1", ",", "2">>
    /\ pg_table # None
    /\ up_call.error = "ValueError: CSV data validation failed"
    /\ up_call.locals.stmts = <<>>

(***************************************************************************)
(* EmbeddingUploader.run, statement by statement                           *)
(***************************************************************************)
MaxBatches == 2

\* mini-batch files: two valid batches that both hold the identifier f1, a
\* batch with an unterminated vector, a batch without the filename column
BatchA ==
    [header |-> TableColumns, filename_dtype |-> "object",
     rows |-> <<CsvRow("f1", GoodVec)>>]
BatchB ==
    [header |-> TableColumns, filename_dtype |-> "object",
     rows |-> <<CsvRow("f1", <<"[", "2", "]">>), CsvRow("f2", GoodVec)>>]
BatchBadData ==
    [header |-> TableColumns, filename_dtype |-> "object",
     rows |-> <<CsvRow("f1", <<"[", "1", ",", "2">>)>>]
BatchBadHeader ==
    [header |-> TableColumns \ {"filename"}, filename_dtype |-> "object",
     rows |-> <<CsvRow("f1", GoodVec)>>]
\* None: data/information/<mini_batch_name>/2_embedded_data.csv does not exist
RunBatches ==
    {None, Some(BatchA), Some(BatchB), Some(BatchBadData), Some(BatchBadHeader)}
BatchLists == SeqsUpTo(RunBatches, MaxBatches)
RowsOf(file) == {file.rows[i] : i \in 1..Len(file.rows)}

Goto(u, pc) == run_pc' = [run_pc EXCEPT ![u] = pc]
Raise(u, e) == run_error' = [run_error EXCEPT ![u] = e]
Sent(u, stmts) == db_log' = [db_log EXCEPT ![u] = @ \o stmts]

\* a transaction that has read the permanent table holds a lock on it until
\* it ends, and DROP TABLE waits for that lock
HoldsTableLock(u) == run_pc[u] \in {"copy", "upsert", "rollback"}

\* run: self.db_connector.connect(), which swallows a connection error and
\* leaves conn and cursor None
Connect(u, ok) ==
    /\ run_pc[u] = "connect"
    /\ conn' = [conn EXCEPT ![u] = IF ok THEN "open" ELSE "none"]
    /\ Goto(u, "create_table")
    /\ UNCHANGED <<mini_batch_names, batch_idx, tmp_table, db_log, run_error,
                   table_before, run_result, committed, uploaderVars,
                   searcherVars, poolVars, collectVars>>

\* create_table_if_needed that drops and recreates whatever the flag says
RunCreateTableAlways(u) ==
    /\ run_pc[u] = "create_table"
    /\ IF conn[u] = "none"
       THEN /\ Raise(u, "AttributeError")
            /\ Goto(u, "except")
            /\ UNCHANGED <<pg_table, db_log>>
       ELSE /\ \A v \in Uploaders \ {u} : ~HoldsTableLock(v)
            /\ pg_table' = Some({})
            /\ Sent(u, <<"DROP TABLE", "CREATE TABLE", "COMMIT">>)
            /\ Goto(u, "loop")
            /\ UNCHANGED run_error
    /\ UNCHANGED <<mini_batch_names, batch_idx, conn, tmp_table, table_before,
                   run_result, committed, csv_file, up_call, scan_type_is_all,
                   searcherVars, poolVars, collectVars>>

\* run: self.create_table_if_needed()
RunCreateTableIfNeeded(u) ==
    /\ run_pc[u] = "create_table"
    /\ IF ~scan_type_is_all
       THEN /\ Goto(u, "loop")
            /\ UNCHANGED <<pg_table, db_log, run_error>>
       ELSE IF conn[u] = "none"
       THEN /\ Raise(u, "AttributeError")
            /\ Goto(u, "except")
            /\ UNCHANGED <<pg_table, db_log>>
       ELSE /\ \A v \in Uploaders \ {u} : ~HoldsTableLock(v)
            /\ pg_table' = Some({})
            /\ Sent(u, <<"DROP TABLE", "CREATE TABLE", "COMMIT">>)
            /\ Goto(u, "loop")
            /\ UNCHANGED run_error
    /\ UNCHANGED <<mini_batch_names, batch_idx, conn, tmp_table, table_before,
                   run_result, committed, csv_file, up_call, scan_type_is_all,
                   searcherVars, poolVars, collectVars>>

\* the for loop takes the next mini-batch and upload_embeddings runs up to
\* its try block: the file check and the two validations
BeginUpload(u) ==
    /\ run_pc[u] = "loop"
    /\ batch_idx[u] < Len(mini_batch_names[u])
    /\ batch_idx' = [batch_idx EXCEPT ![u] = @ + 1]
    /\ LET file == mini_batch_names[u][batch_idx[u] + 1] IN
       IF file = None
       THEN /\ Goto(u, "loop")
            /\ UNCHANGED <<run_error, table_before>>
       ELSE IF ~ValidateCsvColumns(Val(file))
       THEN /\ Raise(u, "ValueError: CSV column validation failed")
            /\ Goto(u, "except")
            /\ UNCHANGED table_before
       ELSE IF ~ValidateCsvData(Val(file))
       THEN /\ Raise(u, "ValueError: CSV data validation failed")
            /\ Goto(u, "except")
            /\ UNCHANGED table_before
       ELSE /\ Goto(u, "temp")
            /\ table_before' = [table_before EXCEPT ![u] = pg_table]
            /\ UNCHANGED run_error
    /\ UNCHANGED <<mini_batch_names, conn, tmp_table, db_log, run_result,
                   committed, uploaderVars, searcherVars, poolVars, collectVars>>

\* CREATE TEMP TABLE tmp_table (LIKE <table> ...) ON COMMIT DROP. Without a
\* connection the cursor is None, and so is conn in the except clause: the
\* AttributeError of conn.rollback() leaves upload_embeddings
CreateTempTable(u) ==
    /\ run_pc[u] = "temp"
    /\ IF conn[u] = "none"
       THEN /\ Raise(u, "AttributeError")
            /\ Goto(u, "except")
            /\ UNCHANGED <<db_log, tmp_table>>
       ELSE IF pg_table = None
       THEN /\ Sent(u, <<"CREATE TEMP TABLE">>)
            /\ Raise(u, "UndefinedTable")
            /\ Goto(u, "rollback")
            /\ UNCHANGED tmp_table
       ELSE /\ Sent(u, <<"CREATE TEMP TABLE">>)
            /\ tmp_table' = [tmp_table EXCEPT ![u] = Some({})]
            /\ Goto(u, "copy")
            /\ UNCHANGED run_error
    /\ UNCHANGED <<mini_batch_names, batch_idx, conn, table_before, run_result,
                   committed, uploaderVars, searcherVars, poolVars, collectVars>>

\* COPY tmp_table (...) FROM STDIN writes the rows into the temporary table
\* when PostgreSQL accepts them
CopyIntoPermanentTable(u, copy_ok) ==
    /\ run_pc[u] = "copy"
    /\ Sent(u, <<"COPY">>)
    /\ pg_table' = Some(Val(pg_table)
                        \cup RowsOf(Val(mini_batch_names[u][batch_idx[u]])))
    /\ IF copy_ok
       THEN Goto(u, "upsert") /\ UNCHANGED run_error
       ELSE Raise(u, "DataError") /\ Goto(u, "rollback")
    /\ UNCHANGED <<mini_batch_names, batch_idx, conn, tmp_table, table_before,
                   run_result, committed, csv_file, up_call, scan_type_is_all,
                   searcherVars, poolVars, collectVars>>

CopyExpert(u, copy_ok) ==
    /\ run_pc[u] = "copy"
    /\ Sent(u, <<"COPY">>)
    /\ IF copy_ok
       THEN /\ tmp_table' = [tmp_table EXCEPT ![u] =
                   Some(RowsOf(Val(mini_batch_names[u][batch_idx[u]])))]
            /\ Goto(u, "upsert")
            /\ UNCHANGED run_error
       ELSE /\ Raise(u, "DataError")
            /\ Goto(u, "rollback")
            /\ UNCHANGED tmp_table
    /\ UNCHANGED <<mini_batch_names, batch_idx, conn, table_before, run_result,
                   committed, uploaderVars, searcherVars, poolVars, collectVars>>

\* INSERT INTO <table> ... SELECT ... FROM tmp_table ON CONFLICT (id) DO
\* UPDATE ..., then conn.commit(). The conflict target must be a column of
\* the table.
Upsert(u) ==
    /\ run_pc[u] = "upsert"
    /\ IF unique_key \notin TableColumns
       THEN /\ Sent(u, <<"UPSERT">>)
            /\ Raise(u, "UndefinedColumn")
            /\ Goto(u, "rollback")
            /\ UNCHANGED <<pg_table, tmp_table, committed>>
       ELSE /\ Sent(u, <<"UPSERT", "COMMIT">>)
            /\ pg_table' = Some(Val(pg_table) \cup Val(tmp_table[u]))
            /\ tmp_table' = [tmp_table EXCEPT ![u] = None]
            /\ committed' = Append(committed, u)
            /\ Goto(u, "loop")
            /\ UNCHANGED run_error
    /\ UNCHANGED <<mini_batch_names, batch_idx, conn, table_before, run_result,
                   csv_file, up_call, scan_type_is_all, searcherVars, poolVars, collectVars>>

\* except Exception: self.db_connector.conn.rollback(); raise
Rollback(u) ==
    /\ run_pc[u] = "rollback"
    /\ Sent(u, <<"ROLLBACK">>)
    /\ tmp_table' = [tmp_table EXCEPT ![u] = None]
    /\ Goto(u, "except")
    /\ UNCHANGED <<mini_batch_names, batch_idx, conn, run_error, table_before,
                   run_result, committed, uploaderVars, searcherVars, poolVars, collectVars>>

\* after the loop: record_count = self.verify_upload() and the success dict
VerifyUpload(u) ==
    /\ run_pc[u] = "loop"
    /\ batch_idx[u] = Len(mini_batch_names[u])
    /\ IF conn[u] = "none"
       THEN /\ Raise(u, "AttributeError")
            /\ Goto(u, "except")
            /\ UNCHANGED <<db_log, run_result>>
       ELSE IF pg_table = None
       THEN /\ Sent(u, <<"SELECT COUNT">>)
            /\ Raise(u, "UndefinedTable")
            /\ Goto(u, "except")
            /\ UNCHANGED run_result
       ELSE /\ Sent(u, <<"SELECT COUNT">>)
            /\ run_result' = [run_result EXCEPT ![u] =
                   Some([status |-> "success",
                         record_count |-> Cardinality(Val(pg_table))])]
            /\ Goto(u, "finally")
            /\ UNCHANGED run_error
    /\ UNCHANGED <<mini_batch_names, batch_idx, conn, tmp_table, table_before,
                   committed, uploaderVars, searcherVars, poolVars, collectVars>>

\* run: except Exception as e: return {'status': 'error', ...}
RunExcept(u) ==
    /\ run_pc[u] = "except"
    /\ run_result' = [run_result EXCEPT ![u] =
           Some([status |-> "error", message |-> run_error[u]])]
    /\ Goto(u, "finally")
    /\ UNCHANGED <<mini_batch_names, batch_idx, conn, tmp_table, db_log,
                   run_error, table_before, committed, uploaderVars,
                   searcherVars, poolVars, collectVars>>

\* run: finally: self.db_connector.close()
RunFinally(u) ==
    /\ run_pc[u] = "finally"
    /\ conn' = [conn EXCEPT ![u] = IF @ = "open" THEN "closed" ELSE @]
    /\ Goto(u, "done")
    /\ UNCHANGED <<mini_batch_names, batch_idx, tmp_table, db_log, run_error,
                   table_before, run_result, committed, uploaderVars,
                   searcherVars, poolVars, collectVars>>

\* the permanent table before the run: absent, empty, or holding a row
InitialTables == {None, Some({}), Some({CsvRow("f0", GoodVec)})}

RunStart(pcs) ==
    /\ SearcherIdle
    /\ PoolIdle
    /\ CollectIdle
    /\ csv_file = None
    /\ up_call = Call("__init__", "ok", "none", <<>>, <<>>)
    /\ pg_table \in InitialTables
    /\ scan_type_is_all \in BOOLEAN
    /\ run_pc = pcs
    /\ batch_idx = [u \in Uploaders |-> 0]
    /\ conn = [u \in Uploaders |-> "none"]
    /\ tmp_table = [u \in Uploaders |-> None]
    /\ db_log = [u \in Uploaders |-> <<>>]
    /\ run_error = [u \in Uploaders |-> "none"]
    /\ table_before = [u \in Uploaders |-> None]
    /\ run_result = [u \in Uploaders |-> None]
    /\ committed = <<>>

\* one uploader runs over a list of mini-batches
InitRun ==
    /\ RunStart([u \in Uploaders |-> IF u = "u1" THEN "connect" ELSE "done"])
    /\ \E names \in BatchLists :
           mini_batch_names = [u \in Uploaders |-> IF u = "u1" THEN names ELSE <<>>]

NextRun ==
    \E u \in Uploaders :
        \/ \E ok \in BOOLEAN : Connect(u, ok)
        \/ RunCreateTableIfNeeded(u)
        \/ BeginUpload(u)
        \/ CreateTempTable(u)
        \/ \E copy_ok \in BOOLEAN : CopyExpert(u, copy_ok)
        \/ Upsert(u)
        \/ Rollback(u)
        \/ VerifyUpload(u)
        \/ RunExcept(u)
        \/ RunFinally(u)

SpecRun == InitRun /\ [][NextRun]_vars

\* two uploaders run at the same time, each over one mini-batch
InitConcurrent ==
    /\ RunStart([u \in Uploaders |-> "connect"])
    /\ mini_batch_names \in [Uploaders -> {<<b>> : b \in RunBatches}]

SpecConcurrent == InitConcurrent /\ [][NextRun]_vars

(***************************************************************************)
(* Properties of the upload                                                *)
(***************************************************************************)
Last(s) == s[Len(s)]
Positions(log, stmt) == {i \in 1..Len(log) : log[i] = stmt}
CurrentBatch(u) == Val(mini_batch_names[u][batch_idx[u]])
IsValidBatch(b) ==
    b # None /\ ValidateCsvColumns(Val(b)) /\ ValidateCsvData(Val(b))
InTryBlock(u) == run_pc[u] \in {"temp", "copy", "upsert", "rollback"}

\* a step of uploader u that may change the permanent table: the drop and
\* recreate of create_table_if_needed, or the upsert of a batch that is
\* validated and fully staged, all of whose rows are then committed
WritesAsAllowed(u) ==
    /\ run_pc'[u] # run_pc[u]
    /\ \/ run_pc[u] = "create_table"
       \/ /\ run_pc[u] = "upsert"
          /\ IsValidBatch(mini_batch_names[u][batch_idx[u]])
          /\ tmp_table[u] = Some(RowsOf(CurrentBatch(u)))
          /\ pg_table' # None
          /\ RowsOf(CurrentBatch(u)) \subseteq Val(pg_table')
          /\ Last(db_log'[u]) = "COMMIT"

\* C11: the permanent table changes only by the upsert of a validated, fully
\* staged batch, which commits every row of the batch (or by the drop and
\* recreate of a full rescan); and when a statement of the try block fails on
\* an open connection, the uploader leaves the block only through ROLLBACK,
\* with the permanent table equal to what it was when the upload started.
C11_StagedUpsertIsAtomic ==
    [][/\ pg_table' # pg_table => \E u \in Uploaders : WritesAsAllowed(u)
       /\ \A u \in Uploaders :
              (InTryBlock(u) /\ run_pc'[u] = "except" /\ conn[u] = "open")
              => /\ run_pc[u] = "rollback"
                 /\ Last(db_log'[u]) = "ROLLBACK"
                 /\ tmp_table'[u] = None
                 /\ pg_table' = table_before[u]]_vars

\* the upsert of a staged batch failed and was rolled back on a table that
\* holds a row
C11_Witness ==
    /\ run_pc["u1"] = "except"
    /\ run_error["u1"] = "UndefinedColumn"
    /\ Last(db_log["u1"]) = "ROLLBACK"
    /\ pg_table = Some({CsvRow("f0", GoodVec)})
    /\ table_before["u1"] = pg_table

\* the rows of the permanent table with the identifier id
RowsWithId(id) == {t \in Val(pg_table) : t.file_id = id}

\* C12: after a run over the same valid mini-batch twice, on an existing
\* table and a server that accepted the COPY, the permanent table holds
\* exactly one row for each identifier of the batch, with the batch's contents.
C12_ReuploadIsIdempotent ==
    \A u \in Uploaders :
        (/\ run_pc[u] = "done"
         /\ Len(mini_batch_names[u]) = 2
         /\ mini_batch_names[u][1] = mini_batch_names[u][2]
         /\ IsValidBatch(mini_batch_names[u][1])
         /\ "UPSERT" \in {db_log[u][i] : i \in 1..Len(db_log[u])})
        => /\ pg_table # None
           /\ \A r \in RowsOf(Val(mini_batch_names[u][1])) :
                  RowsWithId(r.file_id) = {r}

\* C13: when two uploaders have each upserted a batch holding the identifier
\* f1 and both runs are over, both transactions have committed and the
\* permanent table holds exactly one row for f1: the one of the uploader that
\* committed last.
C13_LastWriterWins ==
    (/\ \A u \in Uploaders :
            /\ run_pc[u] = "done"
            /\ IsValidBatch(mini_batch_names[u][1])
            /\ "UPSERT" \in {db_log[u][i] : i \in 1..Len(db_log[u])})
    => /\ Len(committed) = Cardinality(Uploaders)
       /\ pg_table # None
       /\ RowsWithId("f1") =
              {r \in RowsOf(Val(mini_batch_names[Last(committed)][1])) :
                   r.file_id = "f1"}
       /\ Cardinality(RowsWithId("f1")) = 1

C15_TableExistsAfterCreate ==
    (up_call.op = "create_table_if_needed" /\ up_call.outcome = "ok")
    => pg_table # None

\* C16: when a run is over on a connection that was open, the loop has taken
\* every mini-batch of the list, also those after a batch that failed.
C16_FailedBatchDoesNotBlockOthers ==
    \A u \in Uploaders :
        (run_pc[u] = "done" /\ conn[u] = "closed")
        => batch_idx[u] = Len(mini_batch_names[u])

(***************************************************************************)
(* create_embeddings: the worker pool over the images of a folder          *)
(***************************************************************************)
MaxImages == 41
MaxBatchFailures == 1
error_count == 0

\* the number of images found: none, one, a handful in one chunk, and enough
\* for two threads on the CPU, with a remainder that makes a third chunk
ImageCounts == {0, 1, 5, MaxImages}
CorruptCandidates == {1, 21}

NumThreads(dev, n) ==
    IF dev = "cuda" THEN Min(4, Max(1, n \div 50)) ELSE Min(8, Max(1, n \div 20))
BatchSize(dev) == IF dev = "cuda" THEN 16 ELSE 4

\* the slices as they are cut, one more than num_threads when the division
\* leaves a remainder
SplitChunksUnjoined(n, num_threads) ==
    LET chunk_size == n \div num_threads
        count == (n + chunk_size - 1) \div chunk_size
    IN  [k \in 1..count |->
            [j \in 1..(Min(k * chunk_size, n) - (k - 1) * chunk_size) |->
                 (k - 1) * chunk_size + j]]

\* [images[i:i + chunk_size] for i in range(0, len(images), chunk_size)],
\* the last chunk joined to the one before it when there is one too many
SplitChunks(n, num_threads) ==
    LET chunk_size == n \div num_threads
        count == (n + chunk_size - 1) \div chunk_size
        raw == [k \in 1..count |->
                   [j \in 1..(Min(k * chunk_size, n) - (k - 1) * chunk_size) |->
                        (k - 1) * chunk_size + j]]
    IN  IF count > num_threads
        THEN [k \in 1..(count - 1) |->
                 IF k = count - 1 THEN raw[k] \o raw[count] ELSE raw[k]]
        ELSE raw

\* load_and_preprocess_image: the preprocessed tensor of the image, or None
TensorOf(path) == <<"tensor", path>>
LoadAndPreprocessImage(path) ==
    IF path \in corrupt THEN None ELSE Some(TensorOf(path))

\* process_batch: features = tensors, paired with the paths by index
ProcessBatchResult(batch) ==
    [i \in 1..Len(batch) |-> <<batch[i][1], batch[i][2]>>]

WorkerIds == 1..Len(image_chunks)
WorkerDone(w) == w_pc[w] \in {"returned", "raised"}

\* create_embeddings up to executor.submit: collect the images, split them,
\* submit one worker_thread call per chunk. range() with a zero step raises
\* ValueError when no image was found.
SplitAndSubmit ==
    /\ emb_pc = "start"
    /\ LET num_threads == NumThreads(device, n_images) IN
       IF n_images \div num_threads = 0
       THEN /\ emb_pc' = "raised"
            /\ UNCHANGED <<image_chunks, batch_log, w_pc, w_pos, w_batch, w_results>>
       ELSE LET chunks == SplitChunks(n_images, num_threads) IN
            /\ image_chunks' = chunks
            /\ batch_log' = [w \in 1..Len(chunks) |-> <<>>]
            /\ w_pc' = [w \in 1..Len(chunks) |-> "running"]
            /\ w_pos' = [w \in 1..Len(chunks) |-> 0]
            /\ w_batch' = [w \in 1..Len(chunks) |-> <<>>]
            /\ w_results' = [w \in 1..Len(chunks) |-> <<>>]
            /\ emb_pc' = "collect"
    /\ batch_size' = BatchSize(device)
    /\ UNCHANGED <<device, n_images, corrupt, batch_failures, collected, merging,
                   dict_lock, image_features_dict, output_csv, summary,
                   downloadVars, searcherVars, uploaderVars, runVars, collectVars>>

\* worker_thread: one turn of the for loop up to the batch-size test
LoadImage(w) ==
    /\ w \in WorkerIds
    /\ w_pc[w] = "running"
    /\ w_pos[w] < Len(image_chunks[w])
    /\ Len(w_batch[w]) < batch_size
    /\ LET img_path == image_chunks[w][w_pos[w] + 1]
           processed == LoadAndPreprocessImage(img_path)
       IN  /\ w_pos' = [w_pos EXCEPT ![w] = @ + 1]
           /\ w_batch' = [w_batch EXCEPT ![w] =
                  IF processed # None
                  THEN Append(@, <<img_path, Val(processed)>>) ELSE @]
    /\ UNCHANGED <<device, n_images, corrupt, batch_size, image_chunks, batch_log, w_pc, w_results,
                   batch_failures, emb_pc, collected, merging, dict_lock,
                   image_features_dict, output_csv, summary, downloadVars,
                   searcherVars, uploaderVars, runVars, collectVars>>

\* worker_thread: process_batch(batch) on a full batch, or on the rest after
\* the loop; process_batch returns [] when it fails
ProcessBatch(w, ok) ==
    /\ w \in WorkerIds
    /\ w_pc[w] = "running"
    /\ w_batch[w] # <<>>
    /\ Len(w_batch[w]) >= batch_size \/ w_pos[w] = Len(image_chunks[w])
    /\ ~ok => batch_failures < MaxBatchFailures
    /\ batch_failures' = IF ok THEN batch_failures ELSE batch_failures + 1
    /\ w_results' = [w_results EXCEPT ![w] =
           @ \o (IF ok THEN ProcessBatchResult(w_batch[w]) ELSE <<>>)]
    /\ w_batch' = [w_batch EXCEPT ![w] = <<>>]
    /\ batch_log' = [batch_log EXCEPT ![w] =
           Append(@, [i \in 1..Len(w_batch[w]) |-> w_batch[w][i][1]])]
    /\ UNCHANGED <<device, n_images, corrupt, batch_size, image_chunks, w_pc, w_pos, emb_pc,
                   collected, merging, dict_lock, image_features_dict,
                   output_csv, summary, downloadVars, searcherVars,
                   uploaderVars, runVars, collectVars>>

\* worker_thread returning at the end of the loop without the last
\* process_batch call
WorkerReturnUnflushed(w) ==
    /\ w \in WorkerIds
    /\ w_pc[w] = "running"
    /\ w_pos[w] = Len(image_chunks[w])
    /\ w_pc' = [w_pc EXCEPT ![w] = "returned"]
    /\ w_batch' = [w_batch EXCEPT ![w] = <<>>]
    /\ UNCHANGED <<device, n_images, corrupt, batch_size, image_chunks,
                   batch_log, w_pos, w_results, batch_failures, emb_pc,
                   collected, merging, dict_lock, image_features_dict,
                   output_csv, summary, downloadVars, searcherVars,
                   uploaderVars, runVars, collectVars>>

\* worker_thread: return results
WorkerReturn(w) ==
    /\ w \in WorkerIds
    /\ w_pc[w] = "running"
    /\ w_pos[w] = Len(image_chunks[w])
    /\ w_batch[w] = <<>>
    /\ w_pc' = [w_pc EXCEPT ![w] = "returned"]
    /\ UNCHANGED <<device, n_images, corrupt, batch_size, image_chunks, batch_log, w_pos, w_batch,
                   w_results, batch_failures, emb_pc, collected, merging,
                   dict_lock, image_features_dict, output_csv, summary,
                   downloadVars, searcherVars, uploaderVars, runVars, collectVars>>

\* worker_thread ends with an exception that neither load_and_preprocess_image
\* nor process_batch catches (a MemoryError in append or extend); its locals
\* are lost
WorkerRaise(w) ==
    /\ w \in WorkerIds
    /\ w_pc[w] = "running"
    /\ w_pc' = [w_pc EXCEPT ![w] = "raised"]
    /\ w_batch' = [w_batch EXCEPT ![w] = <<>>]
    /\ w_results' = [w_results EXCEPT ![w] = <<>>]
    /\ UNCHANGED <<device, n_images, corrupt, batch_size, image_chunks, batch_log, w_pos,
                   batch_failures, emb_pc, collected, merging, dict_lock,
                   image_features_dict, output_csv, summary, downloadVars,
                   searcherVars, uploaderVars, runVars, collectVars>>

\* a future that raised ends the whole collection
TakeResultAndAbort(w) ==
    /\ emb_pc = "collect"
    /\ w \in WorkerIds \ collected
    /\ WorkerDone(w)
    /\ IF w_pc[w] = "returned"
       THEN /\ dict_lock' = "main"
            /\ merging' = w
            /\ emb_pc' = "merging"
            /\ UNCHANGED collected
       ELSE /\ collected' = WorkerIds
            /\ UNCHANGED <<dict_lock, merging, emb_pc>>
    /\ UNCHANGED <<device, n_images, corrupt, batch_size, image_chunks, batch_log, w_pc, w_pos, w_batch,
                   w_results, batch_failures, image_features_dict, output_csv,
                   summary, downloadVars, searcherVars, uploaderVars, runVars, collectVars>>

\* as_completed yields a finished future; future.result() returns the
\* worker's results and the main thread takes dict_lock, or it re-raises the
\* worker's exception, which the except clause prints
TakeResult(w) ==
    /\ emb_pc = "collect"
    /\ w \in WorkerIds \ collected
    /\ WorkerDone(w)
    /\ IF w_pc[w] = "returned"
       THEN /\ dict_lock' = "main"
            /\ merging' = w
            /\ emb_pc' = "merging"
            /\ UNCHANGED collected
       ELSE /\ collected' = collected \cup {w}
            /\ UNCHANGED <<dict_lock, merging, emb_pc>>
    /\ UNCHANGED <<device, n_images, corrupt, batch_size, image_chunks, batch_log, w_pc, w_pos, w_batch,
                   w_results, batch_failures, image_features_dict, output_csv,
                   summary, downloadVars, searcherVars, uploaderVars, runVars, collectVars>>

\* image_features_dict[img_path] = features for every pair, in order
Merged(dict, results) ==
    LET paths == {results[i][1] : i \in 1..Len(results)} IN
    [path \in DOMAIN dict \cup paths |->
        IF path \in paths
        THEN LET at == {i \in 1..Len(results) : results[i][1] = path}
             IN  results[CHOOSE i \in at : \A j \in at : j <= i][2]
        ELSE dict[path]]

\* a merge that keeps the pairs of the last worker only
MergeOverwriting ==
    /\ emb_pc = "merging"
    /\ dict_lock = "main"
    /\ image_features_dict' = Merged(<<>>, w_results[merging])
    /\ dict_lock' = "free"
    /\ collected' = collected \cup {merging}
    /\ merging' = 0
    /\ emb_pc' = "collect"
    /\ UNCHANGED <<device, n_images, corrupt, batch_size, image_chunks, batch_log, w_pc, w_pos, w_batch,
                   w_results, batch_failures, output_csv, summary, downloadVars,
                   searcherVars, uploaderVars, runVars, collectVars>>

\* with dict_lock: the for loop over thread_results, then the lock is released
MergeResults ==
    /\ emb_pc = "merging"
    /\ dict_lock = "main"
    /\ image_features_dict' = Merged(image_features_dict, w_results[merging])
    /\ dict_lock' = "free"
    /\ collected' = collected \cup {merging}
    /\ merging' = 0
    /\ emb_pc' = "collect"
    /\ UNCHANGED <<device, n_images, corrupt, batch_size, image_chunks, batch_log, w_pc, w_pos, w_batch,
                   w_results, batch_failures, output_csv, summary, downloadVars,
                   searcherVars, uploaderVars, runVars, collectVars>>

\* the table written by to_csv and the counts of the closing prints
SavedState ==
    /\ output_csv' = Some({[img_path |-> path,
                            embedded |-> image_features_dict[path]] :
                               path \in DOMAIN image_features_dict})
    /\ summary' = Some([processed |-> Cardinality(DOMAIN image_features_dict),
                        total |-> n_images,
                        errors |-> error_count])
    /\ emb_pc' = "done"
    /\ UNCHANGED <<device, n_images, corrupt, batch_size, image_chunks, batch_log, w_pc, w_pos, w_batch,
                   w_results, batch_failures, collected, merging, dict_lock,
                   image_features_dict, downloadVars, searcherVars,
                   uploaderVars, runVars, collectVars>>

\* a save that does not wait for the futures
SaveResultsEarly ==
    /\ emb_pc = "collect"
    /\ SavedState

\* after the with block, which ends when as_completed is exhausted and every
\* worker thread has finished: save the table and print the summary
SaveResults ==
    /\ emb_pc = "collect"
    /\ collected = WorkerIds
    /\ SavedState

EmbedStart ==
    /\ device \in {"cpu", "cuda"}
    /\ n_images \in ImageCounts
    /\ corrupt \in SUBSET CorruptCandidates
    /\ batch_size = 8
    /\ image_chunks = <<>>
    /\ batch_log = <<>>
    /\ w_pc = <<>>
    /\ w_pos = <<>>
    /\ w_batch = <<>>
    /\ w_results = <<>>
    /\ batch_failures = 0
    /\ emb_pc = "start"
    /\ collected = {}
    /\ merging = 0
    /\ dict_lock = "free"
    /\ image_features_dict = <<>>
    /\ output_csv = None
    /\ summary = None

NextEmbed ==
    \/ SplitAndSubmit
    \/ \E w \in WorkerIds : LoadImage(w)
    \/ \E w \in WorkerIds, ok \in BOOLEAN : ProcessBatch(w, ok)
    \/ \E w \in WorkerIds : WorkerReturn(w)
    \/ \E w \in WorkerIds : WorkerRaise(w)
    \/ \E w \in WorkerIds : TakeResult(w)
    \/ MergeResults
    \/ SaveResults

(***************************************************************************)
(* GoogleDriveScraper.download_images: the download pool                   *)
(***************************************************************************)
MaxDownloads == 3
max_download_workers == 5

DownloadIds == 1..Len(dl_state)
DownloadDone(i) == dl_state[i] \in {"ok", "failed", "raised"}

\* download_images up to the as_completed loop: return when nothing is
\* downloadable, else submit one _download_worker call per image
SubmitDownloads ==
    /\ dl_pc = "start"
    /\ dl_pc' = IF dl_state = <<>> THEN "done" ELSE "collect"
    /\ UNCHANGED <<dl_state, dl_collected, success_count, embedVars,
                   searcherVars, uploaderVars, runVars, collectVars>>

\* the executor runs a queued call when one of its threads is free
StartDownload(i) ==
    /\ dl_pc = "collect"
    /\ i \in DownloadIds
    /\ dl_state[i] = "queued"
    /\ Cardinality({j \in DownloadIds : dl_state[j] = "running"})
           < max_download_workers
    /\ dl_state' = [dl_state EXCEPT ![i] = "running"]
    /\ UNCHANGED <<dl_pc, dl_collected, success_count, embedVars, searcherVars,
                   uploaderVars, runVars, collectVars>>

\* _download_worker returns (True, ...), returns (False, ...), or raises from
\* its own except clause
DownloadWorker(i, outcome) ==
    /\ i \in DownloadIds
    /\ dl_state[i] = "running"
    /\ dl_state' = [dl_state EXCEPT ![i] = outcome]
    /\ UNCHANGED <<dl_pc, dl_collected, success_count, embedVars, searcherVars,
                   uploaderVars, runVars, collectVars>>

\* one turn of the as_completed loop: count a success, log a failure or an
\* exception
CollectDownload(i) ==
    /\ dl_pc = "collect"
    /\ i \in DownloadIds \ dl_collected
    /\ DownloadDone(i)
    /\ dl_collected' = dl_collected \cup {i}
    /\ success_count' = IF dl_state[i] = "ok" THEN success_count + 1
                        ELSE success_count
    /\ UNCHANGED <<dl_pc, dl_state, embedVars, searcherVars, uploaderVars,
                   runVars, collectVars>>

\* the loop is exhausted: the download summary
FinishDownloads ==
    /\ dl_pc = "collect"
    /\ dl_collected = DownloadIds
    /\ dl_pc' = "done"
    /\ UNCHANGED <<dl_state, dl_collected, success_count, embedVars,
                   searcherVars, uploaderVars, runVars, collectVars>>

DownloadStart ==
    /\ dl_pc = "start"
    /\ dl_state \in {[i \in 1..n |-> "queued"] : n \in 0..MaxDownloads}
    /\ dl_collected = {}
    /\ success_count = 0

NextDownload ==
    \/ SubmitDownloads
    \/ \E i \in DownloadIds : StartDownload(i)
    \/ \E i \in DownloadIds, outcome \in {"ok", "failed", "raised"} :
           DownloadWorker(i, outcome)
    \/ \E i \in DownloadIds : CollectDownload(i)
    \/ FinishDownloads

\* one of the two pools runs
InitPools ==
    /\ SearcherIdle
    /\ csv_file = None
    /\ pg_table = None
    /\ up_call = Call("__init__", "ok", "none", <<>>, <<>>)
    /\ scan_type_is_all = FALSE
    /\ RunIdle
    /\ \/ EmbedStart /\ DownloadIdle
       \/ EmbedIdle /\ DownloadStart
    /\ CollectIdle

NextPools == NextEmbed \/ NextDownload

SpecPools == InitPools /\ [][NextPools]_vars

(***************************************************************************)
(* Properties of the worker pools                                          *)
(***************************************************************************)
ImagePaths == 1..n_images
PathsIn(pairs) == {pairs[i][1] : i \in 1..Len(pairs)}
HasPath(pairs, path) == \E i \in 1..Len(pairs) : pairs[i][1] = path

\* the stage of the j-th image of worker w's chunk, read off the state of the
\* pipeline: waiting in its chunk, preprocessed and waiting in a batch, paired
\* with its features in the worker's results, merged into the shared map,
\* written to the table; failed when it was dropped or its worker raised
Stage(w, j) ==
    LET path == image_chunks[w][j] IN
    IF path \in DOMAIN image_features_dict
    THEN (IF output_csv # None THEN "Done" ELSE "Persisted")
    ELSE IF w_pc[w] = "raised" THEN "Failed"
    ELSE IF j > w_pos[w] THEN "Pending"
    ELSE IF HasPath(w_batch[w], path) THEN "Normalizing"
    ELSE IF HasPath(w_results[w], path) THEN "Encoding"
    ELSE "Failed"

StageEdges ==
    {<<"Pending", "Normalizing">>, <<"Normalizing", "Encoding">>,
     <<"Encoding", "Persisted">>, <<"Persisted", "Done">>,
     <<"Pending", "Failed">>, <<"Normalizing", "Failed">>,
     <<"Encoding", "Failed">>}

\* C17: when create_embeddings is done, the results of every worker that
\* returned are in the shared map, whichever workers raised and in whatever
\* order they finished, and no worker is still running; when download_images
\* is done, every download has finished and success_count counts exactly the
\* downloads that succeeded.
C17_WorkerFailureIsIsolated ==
    /\ emb_pc = "done" =>
           \A w \in WorkerIds :
               /\ WorkerDone(w)
               /\ w_pc[w] = "returned" =>
                      PathsIn(w_results[w]) \subseteq DOMAIN image_features_dict
    /\ dl_pc = "done" =>
           /\ \A i \in DownloadIds : DownloadDone(i)
           /\ success_count =
                  Cardinality({i \in DownloadIds : dl_state[i] = "ok"})

\* one worker raised and the results of another were merged
C17_Witness ==
    /\ emb_pc = "done"
    /\ \E w, v \in WorkerIds :
           /\ w_pc[w] = "raised"
           /\ w_pc[v] = "returned"
           /\ w_results[v] # <<>>
           /\ PathsIn(w_results[v]) \subseteq DOMAIN image_features_dict

\* what the stages of the images of worker w's chunk are read from
StageInputs(w) ==
    <<image_chunks[w], w_pc[w], w_pos[w], w_batch[w], w_results[w],
      image_features_dict, output_csv>>

\* an image keeps its stage or moves along an edge
StageSteps ==
    StageEdges
    \cup {<<s, s>> : s \in {"Pending", "Normalizing", "Encoding", "Persisted",
                            "Done", "Failed"}}

C19_SummaryCountsEveryFailure ==
    emb_pc = "done" =>
        /\ Val(summary).processed = Cardinality(Val(output_csv))
        /\ Val(summary).errors = n_images - Val(summary).processed
        /\ (batch_failures = 0 /\ \A w \in WorkerIds : w_pc[w] = "returned")
           => {r.img_path : r \in Val(output_csv)} = ImagePaths \ corrupt

\* the pairs returned by the workers that returned and have been collected
CollectedPairs ==
    UNION {{w_results[w][i] : i \in 1..Len(w_results[w])} :
               w \in {v \in collected : w_pc[v] = "returned"}}

\* C20: the shared map changes only while the main thread holds dict_lock,
\* and whenever no merge is under way it holds exactly the pairs returned by
\* the collected workers that returned, each path with its own features.
C20_MergeUnderLockIsUnion ==
    /\ [](emb_pc \in {"collect", "done"} =>
              /\ {<<path, image_features_dict[path]>> :
                      path \in DOMAIN image_features_dict} = CollectedPairs
              /\ \A path \in DOMAIN image_features_dict :
                     image_features_dict[path] = TensorOf(path))
    /\ [][image_features_dict' # image_features_dict =>
              dict_lock = "main" /\ emb_pc = "merging"]_vars

\* the second worker finished first: its results are in the map while the
\* first is still running
C20_Witness ==
    /\ Len(image_chunks) = 2
    /\ collected = {2}
    /\ w_pc[1] = "running"
    /\ w_pc[2] = "returned"
    /\ DOMAIN image_features_dict = PathsIn(w_results[2])
    /\ w_results[2] # <<>>

(***************************************************************************)
(* GoogleDriveScraper._download_worker: one image, step by step            *)
(***************************************************************************)
max_retries == 3
MaxRuns == 2        \* times the worker runs on the same image_info

\* sizes of a file on disk; 0 is an empty file
FileSizes == {0, 5, 12}
DiskStates == {None} \cup {Some(n) : n \in FileSizes}

\* image_info: download_url is absent, "N/A" or a URL; file_size is the text
\* the Drive API gave, "N/A" when it gave none
ImageInfos ==
    [download_url : {None, Some("N/A"), Some("url")},
     file_size : {<<"N", "/", "A">>, <<"5">>, <<"1", "2">>}]

\* int(text) for a text of decimal digits; None is ValueError
DigitValue(c) ==
    CHOOSE n \in 0..9 :
        <<"0", "1", "2", "3", "4", "5", "6", "7", "8", "9">>[n + 1] = c
RECURSIVE DigitsValue(_)
DigitsValue(t) ==
    IF t = <<>> THEN 0
    ELSE 10 * DigitsValue(SubSeq(t, 1, Len(t) - 1)) + DigitValue(t[Len(t)])
IntOf(t) == IF IsDigits(t) THEN Some(DigitsValue(t)) ELSE None

\* return success, message
DwReturn(success, message) ==
    /\ dw_pc' = "returned"
    /\ dw_ret' = Some([success |-> success, message |-> message])
    /\ dw_error' = "none"

\* an exception leaves the worker
DwRaise(error) ==
    /\ dw_pc' = "raised"
    /\ dw_ret' = None
    /\ dw_error' = error

\* the worker without the test of a file that is already there
DwStartAlwaysDownloads(mkdir_ok) ==
    /\ dw_pc = "start"
    /\ ~mkdir_ok => dw_disk = None
    /\ IF dw_info.download_url \in {None, Some("N/A")}
       THEN /\ mkdir_ok
            /\ DwReturn(FALSE, <<"Missing or invalid download_url">>)
       ELSE IF ~mkdir_ok
       THEN DwRaise("UnboundLocalError")
       ELSE /\ dw_pc' = "request"
            /\ UNCHANGED <<dw_ret, dw_error>>
    /\ UNCHANGED <<dw_info, dw_disk, dw_disk_before, dw_attempt, dw_trace,
                   dw_runs, driveVars, scrapeVars, searcherVars, uploaderVars,
                   runVars, poolVars>>

\* the worker up to the retry loop: the URL test, the target directory, the
\* test of a file that is already there. mkdir(exist_ok=True) can only fail
\* when the file is not there; the handler of the outer try reads save_path,
\* which is not bound before mkdir has returned.
DwStart(mkdir_ok) ==
    /\ dw_pc = "start"
    /\ ~mkdir_ok => dw_disk = None
    /\ IF dw_info.download_url \in {None, Some("N/A")}
       THEN /\ mkdir_ok
            /\ DwReturn(FALSE, <<"Missing or invalid download_url">>)
       ELSE IF ~mkdir_ok
       THEN DwRaise("UnboundLocalError")
       ELSE IF dw_disk # None /\ Val(dw_disk) > 0
                /\ IntOf(dw_info.file_size) = None
       THEN DwReturn(TRUE, <<"Already exists (size not compared)">>)
       ELSE IF dw_disk # None /\ Val(dw_disk) > 0
                /\ IntOf(dw_info.file_size) = dw_disk
       THEN DwReturn(TRUE, <<"Already exists and size matches">>)
       ELSE /\ dw_pc' = "request"
            /\ UNCHANGED <<dw_ret, dw_error>>
    /\ UNCHANGED <<dw_info, dw_disk, dw_disk_before, dw_attempt, dw_trace,
                   dw_runs, driveVars, scrapeVars, searcherVars, uploaderVars,
                   runVars, poolVars>>

\* what one turn of the retry loop can meet: a RequestException before the
\* file is opened or while it is written, a body written to the end (of
\* `size` bytes), an OSError from open
AttemptOutcomes ==
    {[kind |-> "connect_error", size |-> 0], [kind |-> "os_error", size |-> 0]}
    \cup [kind : {"stream_error", "written"}, size : FileSizes]
IsRequestError(o) == o.kind \in {"connect_error", "stream_error"}

\* the first RequestException ends the worker
DwAttemptNoRetry(o) ==
    /\ dw_pc = "request"
    /\ dw_trace' = Append(dw_trace, o)
    /\ IF IsRequestError(o)
       THEN /\ dw_disk' = None
            /\ dw_attempt' = dw_attempt
            /\ DwReturn(FALSE, <<"Failed to download after 3 attempts",
                                 <<o.kind, dw_attempt + 1>>>>)
       ELSE /\ dw_disk' = IF o.kind = "written" /\ o.size > 0
                          THEN Some(o.size) ELSE None
            /\ dw_attempt' = dw_attempt
            /\ DwReturn(o.kind = "written" /\ o.size > 0, <<"Downloaded to">>)
    /\ UNCHANGED <<dw_info, dw_disk_before, dw_runs, driveVars, scrapeVars,
                   searcherVars, uploaderVars, runVars, poolVars>>

\* one turn of the retry loop
DwAttempt(o) ==
    /\ dw_pc = "request"
    /\ dw_trace' = Append(dw_trace, o)
    /\ IF IsRequestError(o)
       THEN IF dw_attempt < max_retries - 1
            THEN /\ dw_disk' = IF o.kind = "stream_error"
                               THEN Some(o.size) ELSE dw_disk
                 /\ dw_attempt' = dw_attempt + 1
                 /\ UNCHANGED <<dw_pc, dw_ret, dw_error>>
            ELSE /\ dw_disk' = None
                 /\ dw_attempt' = dw_attempt
                 /\ DwReturn(FALSE, <<"Failed to download after 3 attempts",
                                      <<o.kind, dw_attempt + 1>>>>)
       ELSE IF o.kind = "written" /\ o.size > 0
       THEN /\ dw_disk' = Some(o.size)
            /\ dw_attempt' = dw_attempt
            /\ DwReturn(TRUE, <<"Downloaded to">>)
       ELSE IF o.kind = "written"
       THEN /\ dw_disk' = None
            /\ dw_attempt' = dw_attempt
            /\ DwReturn(FALSE, <<"Error downloading",
                                 "Download resulted in an empty file.">>)
       ELSE /\ dw_disk' = None
            /\ dw_attempt' = dw_attempt
            /\ DwReturn(FALSE, <<"Error downloading", "OSError">>)
    /\ UNCHANGED <<dw_info, dw_disk_before, dw_runs, driveVars, scrapeVars,
                   searcherVars, uploaderVars, runVars, poolVars>>

\* download_images is run again: the worker is submitted for the same image
DownloadAgain ==
    /\ dw_pc = "returned"
    /\ dw_runs < MaxRuns
    /\ dw_pc' = "start"
    /\ dw_disk_before' = dw_disk
    /\ dw_attempt' = 0
    /\ dw_trace' = <<>>
    /\ dw_ret' = None
    /\ dw_runs' = dw_runs + 1
    /\ UNCHANGED <<dw_info, dw_disk, dw_error, driveVars, scrapeVars,
                   searcherVars, uploaderVars, runVars, poolVars>>

\* the worker is called on an image
WorkerStart ==
    /\ dw_pc = "start"
    /\ dw_info \in ImageInfos
    /\ dw_disk \in DiskStates
    /\ dw_disk_before = dw_disk
    /\ dw_attempt = 0
    /\ dw_trace = <<>>
    /\ dw_ret = None
    /\ dw_error = "none"
    /\ dw_runs = 1

NextWorker ==
    \/ \E mkdir_ok \in BOOLEAN : DwStart(mkdir_ok)
    \/ \E o \in AttemptOutcomes : DwAttempt(o)
    \/ DownloadAgain

(***************************************************************************)
(* GoogleDriveService.download_file                                        *)
(***************************************************************************)
MaxRetries == 3     \* largest `retries` argument

\* the names google_drive_service.py binds at module level
DriveServiceNames ==
    {"build", "InstalledAppFlow", "Request", "MediaIoBaseDownload", "pickle",
     "io", "List", "Dict", "Optional", "Path", "logging", "logger",
     "GoogleDriveService"}

\* download_file(file_id, retries) is called
DriveStart ==
    /\ df_pc = "attempt"
    /\ df_retries \in 1..MaxRetries
    /\ df_attempt = 0
    /\ df_trace = <<>>
    /\ df_ret = None
    /\ df_error = "none"

\* a failed attempt is followed by the next one and the last failure is
\* swallowed with the others: the loop runs out and None is returned
DfAttemptSleeping(ok) ==
    /\ df_pc = "attempt"
    /\ df_trace' = Append(df_trace, ok)
    /\ IF ok
       THEN /\ df_pc' = "returned"
            /\ df_ret' = Some("bytes")
            /\ UNCHANGED <<df_attempt, df_error>>
       ELSE /\ df_pc' = IF df_attempt < df_retries - 1 THEN "attempt" ELSE "returned"
            /\ df_attempt' = IF df_attempt < df_retries - 1
                             THEN df_attempt + 1 ELSE df_attempt
            /\ UNCHANGED <<df_ret, df_error>>
    /\ UNCHANGED <<df_retries, workerVars, scrapeVars, searcherVars,
                   uploaderVars, runVars, poolVars>>

\* one turn of the for loop: the media request and its chunks, or the except
\* branch, which calls time.sleep before the next turn
DfAttempt(ok) ==
    /\ df_pc = "attempt"
    /\ df_trace' = Append(df_trace, ok)
    /\ IF ok
       THEN /\ df_pc' = "returned"
            /\ df_ret' = Some("bytes")
            /\ UNCHANGED <<df_attempt, df_error>>
       ELSE IF df_attempt < df_retries - 1
       THEN IF "time" \in DriveServiceNames
            THEN /\ df_attempt' = df_attempt + 1
                 /\ UNCHANGED <<df_pc, df_ret, df_error>>
            ELSE /\ df_pc' = "raised"
                 /\ df_error' = "NameError"
                 /\ UNCHANGED <<df_attempt, df_ret>>
       ELSE /\ df_pc' = "returned"
            /\ df_ret' = None
            /\ UNCHANGED <<df_attempt, df_error>>
    /\ UNCHANGED <<df_retries, workerVars, scrapeVars, searcherVars,
                   uploaderVars, runVars, poolVars>>

NextDrive == \E ok \in BOOLEAN : DfAttempt(ok)

\* one of the two download functions is called
InitCollect ==
    /\ SearcherIdle
    /\ csv_file = None
    /\ pg_table = None
    /\ up_call = Call("__init__", "ok", "none", <<>>, <<>>)
    /\ scan_type_is_all = FALSE
    /\ RunIdle
    /\ PoolIdle
    /\ ScrapeIdle
    /\ \/ WorkerStart /\ DriveIdle
       \/ WorkerIdle /\ DriveStart

NextCollect == NextWorker \/ NextDrive

SpecCollect == InitCollect /\ [][NextCollect]_vars

(***************************************************************************)
(* Properties of the download functions                                    *)
(***************************************************************************)
\* C21: in _download_worker an attempt is made only after request errors
\* and never after the third; a request error before the third attempt
\* leaves the worker in the loop, one attempt further; an attempt that wrote
\* a non-empty file ends the worker with success; the third request error
\* ends it with (False, message) where the message carries that last error
C21_InvRetriesUpToThree ==
    /\ Len(dw_trace) <= max_retries
    /\ \A i \in 1..(Len(dw_trace) - 1) : IsRequestError(dw_trace[i])
    /\ dw_trace # <<>> =>
           LET o == Last(dw_trace) IN
           /\ IsRequestError(o) /\ Len(dw_trace) < max_retries =>
                  dw_pc = "request" /\ dw_attempt = Len(dw_trace) /\ dw_ret = None
           /\ IsRequestError(o) /\ Len(dw_trace) = max_retries =>
                  /\ dw_pc = "returned"
                  /\ dw_ret = Some([success |-> FALSE,
                                    message |-> <<"Failed to download after 3 attempts",
                                                  <<o.kind, max_retries>>>>])
           /\ o.kind = "written" /\ o.size > 0 =>
                  dw_pc = "returned" /\ Val(dw_ret).success
C21_RetriesUpToThree ==
    /\ [](dw_pc # "idle" => C21_InvRetriesUpToThree)
    /\ [][dw_pc = "request" /\ dw_pc' = "request" =>
              dw_attempt' = dw_attempt + 1 /\ IsRequestError(Last(dw_trace'))]_vars

\* three request errors, the last one reported
C21_Witness ==
    /\ dw_pc = "returned"
    /\ Len(dw_trace) = 3
    /\ \A i \in 1..3 : IsRequestError(dw_trace[i])
    /\ dw_trace[3].kind = "stream_error"
    /\ ~Val(dw_ret).success

\* C22: download_file(retries = n) makes at most n attempts, returns the
\* bytes on the first success, makes a further attempt after every failure
\* before the n-th, returns None after n failures and never raises
C22_DownloadFileRetriesAndNeverRaises ==
    df_pc # "idle" =>
        /\ df_pc # "raised"
        /\ Len(df_trace) <= df_retries
        /\ \A i \in 1..(Len(df_trace) - 1) : ~df_trace[i]
        /\ df_trace # <<>> /\ Last(df_trace) => df_pc = "returned" /\ df_ret # None
        /\ df_trace # <<>> /\ ~Last(df_trace) /\ Len(df_trace) < df_retries =>
               df_pc = "attempt" /\ df_attempt = Len(df_trace)
        /\ df_trace # <<>> /\ ~Last(df_trace) /\ Len(df_trace) = df_retries =>
               df_pc = "returned" /\ df_ret = None

\* C23: when the target file is there with a non-zero size equal to the
\* recorded size, the worker makes no request, leaves the file as it is and
\* returns success
C23_ExistingFileIsNotDownloadedAgain ==
    (/\ dw_pc \in {"request", "returned", "raised"}
     /\ dw_info.download_url = Some("url")
     /\ dw_disk_before # None
     /\ Val(dw_disk_before) > 0
     /\ IntOf(dw_info.file_size) = dw_disk_before)
    => /\ dw_pc = "returned"
       /\ dw_trace = <<>>
       /\ dw_disk = dw_disk_before
       /\ Val(dw_ret).success

\* the second run on an image whose first run downloaded the recorded size
C23_Witness ==
    /\ dw_runs = 2
    /\ dw_pc = "returned"
    /\ dw_trace = <<>>
    /\ dw_disk = Some(12)
    /\ dw_info = [download_url |-> Some("url"), file_size |-> <<"1", "2">>]
    /\ Val(dw_ret) = [success |-> TRUE,
                      message |-> <<"Already exists and size matches">>]

\* C29: _download_worker ends every call by returning a (success, message)
\* pair; no exception leaves it
C29_WorkerAlwaysReturnsAPair ==
    /\ dw_pc # "raised"
    /\ dw_pc = "returned" => dw_ret # None

(***************************************************************************)
(* GoogleDriveScraper.scrape_folder_recursively                            *)
(***************************************************************************)
MaxFolders == 3     \* folders of the Drive
MaxEdges == 4       \* folders listed in another folder, counted per listing

Folders == 1..MaxFolders

\* a folder graph: the folders the API lists as children of each folder; a
\* folder with several parents or a shortcut gives a diamond or a cycle
FolderGraphs ==
    {g \in [Folders -> SUBSET Folders] :
        Cardinality({e \in Folders \X Folders : e[2] \in g[e[1]]}) <= MaxEdges}

\* a URL as its path segments. _get_subfolders builds the first form; the
\* caller's URL can be another form of the same folder, or no folder URL
SubfolderUrl(id) == <<"drive.google.com", "drive", "folders", id>>
UserUrl(id) == <<"drive.google.com", "drive", "u", "0", "folders", id>>
FileUrl(id) == <<"drive.google.com", "file", "d", id>>
TopUrls == {SubfolderUrl(1), UserUrl(1), FileUrl(1)}

\* re.search(r'/folders/([a-zA-Z0-9_-]+)', folder_url): the segment after
\* the first "folders" segment, None when there is no match
FolderIdOf(url) ==
    LET at == {i \in 1..(Len(url) - 1) : url[i] = "folders"} IN
    IF at = {} THEN None
    ELSE Some(url[(CHOOSE i \in at : \A j \in at : i <= j) + 1])

\* the list the API returns for a set of folders
RECURSIVE Listing(_)
Listing(S) ==
    IF S = {} THEN <<>>
    ELSE LET least == CHOOSE f \in S : \A g \in S : f <= g
         IN  <<least>> \o Listing(S \ {least})

\* a call of scrape_folder_recursively that has not run its first line yet
Frame(url) == [url |-> url, phase |-> "enter", todo |-> <<>>]
Pop == SubSeq(sc_stack, 1, Len(sc_stack) - 1)

\* return from the innermost call
ScPop ==
    /\ sc_stack' = Pop
    /\ sc_pc' = IF Pop = <<>> THEN "done" ELSE sc_pc

\* every call tests the URLs of the calls it is nested in, not a shared set
ScEnterOwnPath(listing_ok) ==
    /\ sc_pc = "running"
    /\ Last(sc_stack).phase = "enter"
    /\ LET url == Last(sc_stack).url IN
       IF url \in {sc_stack[i].url : i \in 1..(Len(sc_stack) - 1)}
       THEN /\ ScPop
            /\ UNCHANGED <<sc_visited, sc_collected>>
       ELSE IF FolderIdOf(url) = None
       THEN /\ ScPop
            /\ sc_visited' = sc_visited \cup {url}
            /\ UNCHANGED sc_collected
       ELSE /\ sc_visited' = sc_visited \cup {url}
            /\ sc_collected' = Append(sc_collected, url)
            /\ sc_stack' = [sc_stack EXCEPT ![Len(sc_stack)] =
                   [url |-> url, phase |-> "loop",
                    todo |-> IF listing_ok
                             THEN Listing(sc_graph[Val(FolderIdOf(url))])
                             ELSE <<>>]]
            /\ UNCHANGED sc_pc
    /\ UNCHANGED <<sc_graph, sc_url, workerVars, driveVars, searcherVars,
                   uploaderVars, runVars, poolVars>>

\* a call up to its for loop: the visited test, the folder id, the images of
\* the folder, its subfolders (none when the API call fails)
ScEnter(listing_ok) ==
    /\ sc_pc = "running"
    /\ Last(sc_stack).phase = "enter"
    /\ LET url == Last(sc_stack).url IN
       IF url \in sc_visited
       THEN /\ ScPop
            /\ UNCHANGED <<sc_visited, sc_collected>>
       ELSE IF FolderIdOf(url) = None
       THEN /\ ScPop
            /\ sc_visited' = sc_visited \cup {url}
            /\ UNCHANGED sc_collected
       ELSE /\ sc_visited' = sc_visited \cup {url}
            /\ sc_collected' = Append(sc_collected, url)
            /\ sc_stack' = [sc_stack EXCEPT ![Len(sc_stack)] =
                   [url |-> url, phase |-> "loop",
                    todo |-> IF listing_ok
                             THEN Listing(sc_graph[Val(FolderIdOf(url))])
                             ELSE <<>>]]
            /\ UNCHANGED sc_pc
    /\ UNCHANGED <<sc_graph, sc_url, workerVars, driveVars, searcherVars,
                   uploaderVars, runVars, poolVars>>

\* one turn of the for loop: the recursive call on the next subfolder
ScRecurse ==
    /\ sc_pc = "running"
    /\ Last(sc_stack).phase = "loop"
    /\ Last(sc_stack).todo # <<>>
    /\ sc_stack' = Append([sc_stack EXCEPT ![Len(sc_stack)].todo = Tail(@)],
                          Frame(SubfolderUrl(Head(Last(sc_stack).todo))))
    /\ UNCHANGED <<sc_pc, sc_graph, sc_url, sc_visited, sc_collected,
                   workerVars, driveVars, searcherVars, uploaderVars, runVars,
                   poolVars>>

\* the for loop is over: return current_run_images
ScReturn ==
    /\ sc_pc = "running"
    /\ Last(sc_stack).phase = "loop"
    /\ Last(sc_stack).todo = <<>>
    /\ ScPop
    /\ UNCHANGED <<sc_graph, sc_url, sc_visited, sc_collected, workerVars,
                   driveVars, searcherVars, uploaderVars, runVars, poolVars>>

\* the top-level call: visited_urls is None and becomes a new set
ScrapeStart ==
    /\ sc_pc = "running"
    /\ sc_graph \in FolderGraphs
    /\ sc_url \in TopUrls
    /\ sc_stack = <<Frame(sc_url)>>
    /\ sc_visited = {}
    /\ sc_collected = <<>>

InitScrape ==
    /\ SearcherIdle
    /\ csv_file = None
    /\ pg_table = None
    /\ up_call = Call("__init__", "ok", "none", <<>>, <<>>)
    /\ scan_type_is_all = FALSE
    /\ RunIdle
    /\ PoolIdle
    /\ WorkerIdle
    /\ DriveIdle
    /\ ScrapeStart

NextScrape ==
    \/ \E listing_ok \in BOOLEAN : ScEnter(listing_ok)
    \/ ScRecurse
    \/ ScReturn

\* the calls run in one thread, which is never held up for ever
SpecScrape == InitScrape /\ [][NextScrape]_vars /\ WF_vars(NextScrape)

\* C30: the top-level call returns, and no folder URL has its images
\* collected twice during it
C30_ScrapeTerminatesOncePerUrl ==
    /\ <>(sc_pc = "done")
    /\ [](\A i, j \in 1..Len(sc_collected) :
              sc_collected[i] = sc_collected[j] => i = j)

\* folder 3 is listed in folders 1 and 2 and lists folder 1 itself
C30_Witness ==
    /\ sc_pc = "done"
    /\ sc_graph = (1 :> {2, 3} @@ 2 :> {3} @@ 3 :> {1})
    /\ sc_url = SubfolderUrl(1)
    /\ sc_collected = <<SubfolderUrl(1), SubfolderUrl(2), SubfolderUrl(3)>>

(***************************************************************************)
(* The batch pipeline against the query path                               *)
(***************************************************************************)
\* self.model.encode_image(image_input.unsqueeze(0)): the CLIP features of a
\* preprocessed tensor
ModelEncodeImage(tensor) == <<"features", tensor>>

\* encode_image before its division by the norm: the features of the tensor
\* load_and_preprocess_image makes of the image
QueryFeatures(path) == ModelEncodeImage(TensorOf(path))

\* C24: every vector in the table create_embeddings writes is what the
\* query path computes for the same image before its unit normalisation:
\* the CLIP features of the preprocessed image
C24_BatchEmbedsLikeQuery ==
    output_csv # None =>
        \A row \in Val(output_csv) : row.embedded = QueryFeatures(row.img_path)

\* C28: create_embeddings on a folder without images ends normally, with an
\* empty table written and 0 images reported as processed
C28_EmptyFolderEndsNormally ==
    (n_images = 0 /\ emb_pc \notin {"idle", "start"})
    => /\ emb_pc = "done"
       /\ output_csv = Some({})
       /\ Val(summary).processed = 0

(***************************************************************************)
(* analyze_ranking over ranked lists of every length up to MaxRanked       *)
(***************************************************************************)
MaxRanked == 11

\* paths of stored images: one holds the identifier "a", the other "b"
RankedPaths == {<<"a">>, <<"x", "b">>}

\* the i-th entry of a ranked list: scores fall with the position
RankedEntry(path, i) ==
    [img_path |-> path,
     score |-> [num |-> MaxRanked + 1 - i,
                den2 |-> (MaxRanked + 1) * (MaxRanked + 1)]]

\* the lists of (path, score) pairs a caller can pass as top_results
RankedLists ==
    UNION {{[i \in 1..n |-> RankedEntry(f[i], i)] : f \in [1..n -> RankedPaths]} :
              n \in 0..MaxRanked}

\* a caller holds a ranked list
InitRanking ==
    /\ embedd_df = None
    /\ dataset_features = None
    /\ ever_loaded = FALSE
    /\ last_call = Call("__init__", "ok", "none", <<>>, <<>>)
    /\ \E t \in RankedLists : ret = Some([kind |-> "top_results", value |-> t])
    /\ UploaderIdle

NextRanking == \E stem \in QueryStems : AnalyzeRankingCall(stem)

SpecRanking == InitRanking /\ [][NextRanking]_vars

\* C25: analyze_ranking reports rank None with the four flags false exactly
\* when no entry holds the query's identifier; otherwise the rank is the
\* 1-based position of the first entry that holds it, the score is that
\* entry's, and found_in_top_N is true exactly when rank <= N
C25_RankIsFirstMatchAndFlagsFollow ==
    last_call.op = "analyze_ranking" =>
        LET t == last_call.args.top_results
            a == Val(ret).value
            Matches(i) == IsSubstring(a.query_id, t[i].img_path)
        IN  /\ a.query_id = ExtractImageId(last_call.args.query_path)
            /\ (a.rank = None) <=> (\A i \in 1..Len(t) : ~Matches(i))
            /\ a.rank = None =>
                   /\ ~a.found_in_top_1 /\ ~a.found_in_top_3
                   /\ ~a.found_in_top_5 /\ ~a.found_in_top_10
                   /\ a.similarity_score = None
            /\ a.rank # None =>
                   LET r == Val(a.rank) IN
                   /\ r \in 1..Len(t)
                   /\ Matches(r)
                   /\ \A i \in 1..(r - 1) : ~Matches(i)
                   /\ a.similarity_score = Some(t[r].score)
                   /\ a.found_in_top_1 <=> r <= 1
                   /\ a.found_in_top_3 <=> r <= 3
                   /\ a.found_in_top_5 <=> r <= 5
                   /\ a.found_in_top_10 <=> r <= 10

\* the first match is the 11th entry, behind every threshold
C25_Witness ==
    /\ last_call.op = "analyze_ranking"
    /\ Val(ret).value.rank = Some(11)
    /\ ~Val(ret).value.found_in_top_10
    /\ Len(last_call.args.top_results) = 11

(***************************************************************************)
(* create_embeddings: the split into chunks, over every image count        *)
(***************************************************************************)
MaxSplitImages == 210

\* create_embeddings finds between 0 and MaxSplitImages images
InitSplit ==
    /\ SearcherIdle
    /\ csv_file = None
    /\ pg_table = None
    /\ up_call = Call("__init__", "ok", "none", <<>>, <<>>)
    /\ scan_type_is_all = FALSE
    /\ RunIdle
    /\ DownloadIdle
    /\ CollectIdle
    /\ device \in {"cpu", "cuda"}
    /\ n_images \in 0..MaxSplitImages
    /\ corrupt = {}
    /\ batch_size = 8
    /\ image_chunks = <<>>
    /\ batch_log = <<>>
    /\ w_pc = <<>>
    /\ w_pos = <<>>
    /\ w_batch = <<>>
    /\ w_results = <<>>
    /\ batch_failures = 0
    /\ emb_pc = "start"
    /\ collected = {}
    /\ merging = 0
    /\ dict_lock = "free"
    /\ image_features_dict = <<>>
    /\ output_csv = None
    /\ summary = None

SpecSplit == InitSplit /\ [][SplitAndSubmit]_vars

RECURSIVE Flatten(_)
Flatten(seqs) == IF seqs = <<>> THEN <<>> ELSE Head(seqs) \o Flatten(Tail(seqs))

\* C26: for n >= 1 images the chunks are at most num_threads non-empty runs
\* of consecutive images which, one after the other, are the image list
C26_ChunksPartitionTheImages ==
    (n_images >= 1 /\ emb_pc # "start") =>
        /\ emb_pc = "collect"
        /\ Len(image_chunks) \in 1..NumThreads(device, n_images)
        /\ \A k \in 1..Len(image_chunks) :
               /\ image_chunks[k] # <<>>
               /\ \A j \in 1..(Len(image_chunks[k]) - 1) :
                      image_chunks[k][j + 1] = image_chunks[k][j] + 1
        /\ Flatten(image_chunks) = [i \in 1..n_images |-> i]

\* 169 images on the CPU: 8 threads, 8 chunks of 21 and a ninth of 1 that is
\* joined to the eighth
C26_Witness ==
    /\ emb_pc = "collect"
    /\ device = "cpu"
    /\ n_images = 169
    /\ Len(image_chunks) = 8
    /\ Len(image_chunks[8]) = 22

(***************************************************************************)
(* worker_thread on one list of images, over every batch size              *)
(***************************************************************************)
MaxChunkImages == 6
MaxBatchSize == 6

\* worker_thread(image_paths, batch_size) is called
InitWorkerThread ==
    /\ SearcherIdle
    /\ csv_file = None
    /\ pg_table = None
    /\ up_call = Call("__init__", "ok", "none", <<>>, <<>>)
    /\ scan_type_is_all = FALSE
    /\ RunIdle
    /\ DownloadIdle
    /\ CollectIdle
    /\ device = "cpu"
    /\ n_images \in 1..MaxChunkImages
    /\ corrupt \in SUBSET (1..n_images)
    /\ batch_size \in 1..MaxBatchSize
    /\ image_chunks = <<[i \in 1..n_images |-> i]>>
    /\ batch_log = <<<<>>>>
    /\ w_pc = <<"running">>
    /\ w_pos = <<0>>
    /\ w_batch = <<<<>>>>
    /\ w_results = <<<<>>>>
    /\ batch_failures = 0
    /\ emb_pc = "collect"
    /\ collected = {}
    /\ merging = 0
    /\ dict_lock = "free"
    /\ image_features_dict = <<>>
    /\ output_csv = None
    /\ summary = None

NextWorkerThread ==
    \/ LoadImage(1)
    \/ \E ok \in BOOLEAN : ProcessBatch(1, ok)
    \/ WorkerReturn(1)

SpecWorkerThread == InitWorkerThread /\ [][NextWorkerThread]_vars

\* the paths of a list that load_and_preprocess_image can load, in order
RECURSIVE Loadable(_)
Loadable(paths) ==
    IF paths = <<>> THEN <<>>
    ELSE (IF Head(paths) \in corrupt THEN <<>> ELSE <<Head(paths)>>)
         \o Loadable(Tail(paths))

====
